---------------------------- MODULE Spec2Model ----------------------------
(***************************************************************************)
(* Model of the ocpack asset pipeline:                                     *)
(*   - pkg/iso/generator.go      (ISOGenerator: image assembly)            *)
(*   - pkg/catalognew            (CatalogManagerNew: TTL catalog cache)    *)
(*   - pkg/save                  (Saver: operator-name resolution)         *)
(* Each component has its own specification over its own variables; the    *)
(* variables of the other components are parked on "off".                  *)
(***************************************************************************)
EXTENDS Integers, Sequences, FiniteSets, TLC

VARIABLES
    \* ---- pkg/iso: the cluster directory and one GenerateISO invocation
    fs,        \* files and directories GenerateISO reads and writes
    pc,        \* position of the running GenerateISO call ("idle" between calls)
    opts,      \* GenerateOptions of the running call
    ret,       \* what the last call returned
    run,       \* number of GenerateISO calls started so far
    \* ---- pkg/catalognew: the cache directory and one GetAllOperators call
    cacheFile, \* file at cm.CacheFile
    tmpFile,   \* file at cm.CacheFile + ".tmp"
    now,       \* wall clock, in hours
    cpc,       \* position of the running GetAllOperators call
    cmem,      \* locals of the running call
    cret,      \* what the last call returned
    \* ---- pure functions: inputs drawn by Init, result set by the action
    arg,       \* input of the function under check
    out        \* its result (of kind "none" before it is applied)

isoVars   == <<fs, pc, opts, ret, run>>
cacheVars == <<cacheFile, tmpFile, now, cpc, cmem, cret>>
fnVars    == <<arg, out>>
vars      == <<fs, pc, opts, ret, run, cacheFile, tmpFile, now, cpc, cmem, cret, arg, out>>

IsoOff   == fs = "off" /\ pc = "off" /\ opts = "off" /\ ret = "off" /\ run = 0
CacheOff == cacheFile = "off" /\ tmpFile = "off" /\ now = 0 /\ cpc = "off"
            /\ cmem = "off" /\ cret = "off"
FnOff    == arg = "off" /\ out = "off"

\* The result of a function that has not been applied yet.
NotApplied == [kind |-> "none"]

(***************************************************************************)
(*                       pkg/iso/generator.go                              *)
(***************************************************************************)

\* Number of GenerateISO invocations explored.
MaxRuns == 2

Absent == "absent"

\* A rendered document is a tuple of the values the template embeds; <<>>
\* is no file, <<"partial">> a file the template stopped writing half-way.
NoDoc == <<>>
PartialDoc == <<"partial">>

\* The optional inputs found on disk: none, the trust bundle only, all.
OptionalInputs == {{}, {"ca"}, {"ssh", "ca", "icsp"}}

\* The state of the cluster directory before the first invocation.  The
\* installer binaries, the raw credential, a previously merged credential,
\* the optional inputs and a previously produced image may or may not be
\* there; nothing below the installation directory exists yet except
\* possibly the image.  A path that os.Stat cannot reach for another reason
\* than its absence is "denied".
IsoInitFS ==
    [ tool       : {Absent, "present", "denied"},  \* <DownloadDir>/bin/openshift-install
      extracted  : BOOLEAN,                        \* openshift-install-<ver>-<registryHost>
      pullSecret : {Absent, "json\n", "text\n", "denied"},  \* pull-secret.txt
      merged     : {Absent, "merged", "merged\n"}, \* registry/merged-auth.json
      optional   : OptionalInputs,                 \* SSH key, trust bundle, mirror metadata
      nDirs      : {0},                            \* installation dirs created, in order
      installCfg : {NoDoc},                        \* installation/install-config.yaml
      agentCfg   : {NoDoc},                        \* installation/agent-config.yaml
      installBy  : {0},                            \* invocation that rendered installCfg
      agentBy    : {0},                            \* invocation that rendered agentCfg
      temp       : {FALSE},                        \* installation/temp exists
      tempFiles  : {{}},                           \* what installation/temp holds
      iso        : {Absent, "old"},                \* final image (run that produced it)
      ignition   : {{}},                           \* installation/ignition artifacts
      invoked    : {"none"},                       \* installer binary last started
      installerRuns : {0} ]                        \* installer processes started

IsoInit ==
    /\ fs \in IsoInitFS
    /\ pc = "idle"
    /\ opts = [Force |-> FALSE]
    /\ ret = "none"
    /\ run = 0
    /\ CacheOff /\ FnOff

IsoFrame == UNCHANGED <<cacheVars, fnVars>>

\* What a file written by invocation r holds.
By(r) == ToString(r)

\* os.Stat(targetISOPath) succeeds.
ISOExists(f) == f.iso # Absent

\* ValidateConfig without the check of the raw credential.
ValidateConfigOKToolOnly(f) == f.tool # Absent

\* ValidateConfig: the downloaded installer and the raw credential must not
\* be reported as non-existent (os.IsNotExist).
ValidateConfigOK(f) == f.tool # Absent /\ f.pullSecret # Absent

\* The gate as it would be were it evaluated after step 1 (validation).
GateAppliesLate(o, f) == ~o.Force /\ ISOExists(f) /\ ValidateConfigOK(f)

\* The idempotency gate of GenerateISO: no Force, and the target image exists.
GateApplies(o, f) == ~o.Force /\ ISOExists(f)

\* The auxiliary artifacts generateISOFiles copies out, in order, and the
\* position of the loop at each.
filesToCopy == <<"auth", "log", "state">>
AuxStep == [auth |-> "copy:auth", log |-> "copy:log", state |-> "copy:state"]
AuxSteps == {"copy:auth", "copy:log", "copy:state"}

\* The order of the steps with the rendering of the install document
\* left out.
StepAfterSkipRender(step) ==
    CASE step = "validate"   -> "mkdirs"
      [] step = "mkdirs"     -> "agentcfg"
      [] step = "installcfg" -> "agentcfg"
      [] step = "agentcfg"   -> "isofiles"
      [] step = "isofiles"   -> "copy"
      [] step = "copy"       -> "install"
      [] step = "install"    -> "move"
      [] step = "move"       -> "copy:auth"
      [] step = "copy:auth"  -> "copy:log"
      [] step = "copy:log"   -> "copy:state"
      [] OTHER               -> "idle"

\* The step that follows a step that did not fail: steps 1 to 5 of
\* GenerateISO, and within step 5 the steps of generateISOFiles.
StepAfter(step) ==
    CASE step = "validate"   -> "mkdirs"
      [] step = "mkdirs"     -> "installcfg"
      [] step = "installcfg" -> "agentcfg"
      [] step = "agentcfg"   -> "isofiles"
      [] step = "isofiles"   -> "copy"
      [] step = "copy"       -> "install"
      [] step = "install"    -> "move"
      [] step = "move"       -> "copy:auth"
      [] step = "copy:auth"  -> "copy:log"
      [] step = "copy:log"   -> "copy:state"
      [] OTHER               -> "idle"

\* GenerateISO, entry: the gate; either return nil at once or go on to step 1.
GenerateISO(force) ==
    /\ pc = "idle"
    /\ run < MaxRuns
    /\ run' = run + 1
    /\ opts' = [Force |-> force]
    /\ IF GateApplies([Force |-> force], fs)
         THEN /\ ret' = "ok"
              /\ pc' = "idle"
              /\ fs' = fs
         ELSE /\ ret' = "none"
              /\ pc' = "validate"
              /\ fs' = fs
    /\ IsoFrame

\* Step 1 of GenerateISO.
ValidateConfig ==
    /\ pc = "validate"
    /\ IF ValidateConfigOK(fs)
         THEN pc' = StepAfter(pc) /\ ret' = ret
         ELSE pc' = "idle" /\ ret' = "err:validate"
    /\ UNCHANGED <<fs, opts, run>>
    /\ IsoFrame

\* createInstallationDirs: MkdirAll of installation, ignition, iso, in order;
\* a failing MkdirAll leaves the directories made so far.
createInstallationDirs ==
    /\ pc = "mkdirs"
    /\ \E made \in 0..3 :
         /\ made >= fs.nDirs
         /\ fs' = [fs EXCEPT !.nDirs = made]
         /\ IF made = 3
              THEN pc' = StepAfter(pc) /\ ret' = ret
              ELSE pc' = "idle" /\ ret' = "err:mkdirs"
    /\ UNCHANGED <<opts, run>>
    /\ IsoFrame

\* strings.TrimSpace on the contents a credential file can have.
TrimSpace(s) ==
    CASE s = "json\n"   -> "json"
      [] s = "text\n"   -> "text"
      [] s = "merged\n" -> "merged"
      [] s = "key\n"    -> "key"
      [] s = "caIP\n"   -> "caIP"
      [] s = "caRoot\n" -> "caRoot"
      [] OTHER          -> s

\* os.ReadFile of the raw credential succeeds.
RawReadable(f) == f.pullSecret \notin {Absent, "denied"}

\* json.Unmarshal of the raw credential succeeds and it has an auths map.
RawParses(f) == f.pullSecret = "json\n"

\* The merged credential file cut short.
Truncated == "merg"

\* createMergedAuthConfig applied to the file system.  io is the outcome of
\* MkdirAll and os.WriteFile: "ok", "fail" (nothing written) or "partial"
\* (the write stops part-way; os.WriteFile writes the target in place).
\* Result: whether it returned an error, and the merged file afterwards.
createMergedAuthConfig(f, io) ==
    IF ~RawReadable(f) THEN [err |-> TRUE, merged |-> f.merged]
    ELSE IF ~RawParses(f) THEN [err |-> TRUE, merged |-> f.merged]
    ELSE IF io = "ok" THEN [err |-> FALSE, merged |-> "merged"]
    ELSE IF io = "partial" THEN [err |-> TRUE, merged |-> Truncated]
    ELSE [err |-> TRUE, merged |-> f.merged]

\* getPullSecret that merges anew on every call.
getPullSecretAlwaysMerge(f, io, readOK) ==
    LET m == createMergedAuthConfig(f, io) IN
    IF ~m.err THEN [err |-> FALSE, secret |-> TrimSpace(m.merged), merged |-> m.merged]
    ELSE IF RawReadable(f)
      THEN [err |-> FALSE, secret |-> TrimSpace(f.pullSecret), merged |-> m.merged]
    ELSE [err |-> TRUE, secret |-> "", merged |-> m.merged]

\* getPullSecret with a failed merge made fatal.
getPullSecretFatalMerge(f, io, readOK) ==
    IF f.merged # Absent
      THEN IF readOK
             THEN [err |-> FALSE, secret |-> TrimSpace(f.merged), merged |-> f.merged]
             ELSE [err |-> TRUE, secret |-> "", merged |-> f.merged]
      ELSE LET m == createMergedAuthConfig(f, io) IN
           IF m.err THEN [err |-> TRUE, secret |-> "", merged |-> m.merged]
           ELSE IF readOK
             THEN [err |-> FALSE, secret |-> TrimSpace(m.merged), merged |-> m.merged]
           ELSE [err |-> TRUE, secret |-> "", merged |-> m.merged]

\* getPullSecret: the merged file if it exists; else the merge and then
\* either the raw credential (merge failed) or getPullSecret once more.
\* readOK is the outcome of os.ReadFile of the merged file.
\* Result: error?, the secret returned, the merged file afterwards, and the
\* numbers of calls of getPullSecret and of createMergedAuthConfig made.
RECURSIVE getPullSecret(_, _, _)
getPullSecret(f, io, readOK) ==
    IF f.merged # Absent
      THEN IF readOK
             THEN [err |-> FALSE, secret |-> TrimSpace(f.merged), merged |-> f.merged,
                   calls |-> 1, merges |-> 0]
             ELSE [err |-> TRUE, secret |-> "", merged |-> f.merged,
                   calls |-> 1, merges |-> 0]
      ELSE LET m == createMergedAuthConfig(f, io) IN
           IF m.err
             THEN IF RawReadable(f)
                    THEN [err |-> FALSE, secret |-> TrimSpace(f.pullSecret), merged |-> m.merged,
                          calls |-> 1, merges |-> 1]
                    ELSE [err |-> TRUE, secret |-> "", merged |-> m.merged,
                          calls |-> 1, merges |-> 1]
             ELSE LET r == getPullSecret([f EXCEPT !.merged = m.merged], io, readOK)
                  IN  [r EXCEPT !.calls = @ + 1, !.merges = @ + 1]

\* The value of an optional input: getSSHKey, getAdditionalTrustBundle and
\* findAndParseICSP yield "" when the input is not there.
Optional(f, x) == IF x \in f.optional THEN x ELSE ""

\* InstallConfigData as the template embeds it, stamped with the time of
\* the invocation.
InstallConfigDataStamped(secret, f, r) ==
    <<secret, Optional(f, "ssh"), Optional(f, "ca"), Optional(f, "icsp"), By(r)>>

\* InstallConfigData as the template embeds it in invocation r: the
\* credential, the SSH key, the trust bundle, the mirror mapping.  (The
\* fields taken from the configuration are the same in every invocation.)
InstallConfigData(secret, f, r) ==
    <<secret, Optional(f, "ssh"), Optional(f, "ca"), Optional(f, "icsp")>>

\* AgentConfigData: taken from the configuration only.
AgentConfigData == <<"hosts">>

\* executeTemplate: os.Create may fail (the old file stays), Execute may
\* fail (a partial file stays), or the document is written.
executeTemplate(old, doc, outcome) ==
    CASE outcome = "create" -> old
      [] outcome = "exec"   -> PartialDoc
      [] OTHER              -> doc

\* generateInstallConfig: resolve the credential, then render the document.
\* With io = "crash" the process dies while os.WriteFile writes the merged
\* file.
generateInstallConfig ==
    /\ pc = "installcfg"
    /\ \E io \in {"ok", "fail", "partial", "crash"}, readOK \in BOOLEAN,
          outcome \in {"ok", "create", "exec"} :
         IF io = "crash"
           THEN /\ fs.merged = Absent /\ RawParses(fs)
                /\ fs' = [fs EXCEPT !.merged = Truncated]
                /\ pc' = "idle" /\ ret' = "killed"
           ELSE LET ps == getPullSecret(fs, io, readOK) IN
                IF ps.err
                  THEN /\ fs' = [fs EXCEPT !.merged = ps.merged]
                       /\ pc' = "idle" /\ ret' = "err:pullsecret"
                  ELSE /\ fs' = [fs EXCEPT
                                   !.merged = ps.merged,
                                   !.installCfg = executeTemplate(@,
                                       InstallConfigData(ps.secret, fs, run), outcome),
                                   !.installBy = IF outcome = "create" THEN @ ELSE run]
                       /\ IF outcome = "ok"
                            THEN pc' = StepAfter(pc) /\ ret' = ret
                            ELSE pc' = "idle" /\ ret' = "err:render"
    /\ UNCHANGED <<opts, run>>
    /\ IsoFrame

\* generateAgentConfig: render the host document.
generateAgentConfig ==
    /\ pc = "agentcfg"
    /\ \E outcome \in {"ok", "create", "exec"} :
         /\ fs' = [fs EXCEPT !.agentCfg = executeTemplate(@, AgentConfigData, outcome),
                              !.agentBy = IF outcome = "create" THEN @ ELSE run]
         /\ IF outcome = "ok"
              THEN pc' = StepAfter(pc) /\ ret' = ret
              ELSE pc' = "idle" /\ ret' = "err:render"
    /\ UNCHANGED <<opts, run>>
    /\ IsoFrame

\* findOpenshiftInstall with the two locations tried in the other order.
findOpenshiftInstallDownloadedFirst(f) ==
    IF f.tool = "present" THEN "downloaded"
    ELSE IF f.extracted THEN "extracted"
    ELSE "none"

\* findOpenshiftInstall: the per-version binary first, then the downloaded
\* one; a location counts only if os.Stat succeeds on it.
findOpenshiftInstall(f) ==
    IF f.extracted THEN "extracted"
    ELSE IF f.tool = "present" THEN "downloaded"
    ELSE "none"

\* The working directory removed on the successful return only.
deferredRemoveAllOnSuccess(f, failed) ==
    IF failed THEN f ELSE [f EXCEPT !.temp = FALSE, !.tempFiles = {}]

\* defer os.RemoveAll(tempDir): runs on every return of generateISOFiles
\* after the working directory was made.
deferredRemoveAll(f, failed) == [f EXCEPT !.temp = FALSE, !.tempFiles = {}]

\* The installer's failure ignored: the image it left is moved all the same.
onInstallerErrorMoveAnyway(f, r) ==
    deferredRemoveAll([f EXCEPT !.iso = By(r)], TRUE)

\* generateISOFiles when cmd.Run returns an error: return at once.
onInstallerError(f, r) == deferredRemoveAll(f, TRUE)

\* generateISOFiles, start: find the installer, make the working directory
\* (MkdirAll of a directory that exists cannot fail).
generateISOFiles ==
    /\ pc = "isofiles"
    /\ IF findOpenshiftInstall(fs) = "none"
         THEN /\ fs' = fs
              /\ pc' = "idle" /\ ret' = "err:noinstaller"
         ELSE \E ok \in BOOLEAN :
                IF ok
                  THEN /\ fs' = [fs EXCEPT !.temp = TRUE]
                       /\ pc' = StepAfter(pc) /\ ret' = ret
                  ELSE /\ ~fs.temp
                       /\ fs' = fs
                       /\ pc' = "idle" /\ ret' = "err:mktemp"
    /\ UNCHANGED <<opts, run>>
    /\ IsoFrame

\* generateISOFiles, the loop copying the two documents into the working
\* directory; it returns at the first copy that fails.
copyDocuments ==
    /\ pc = "copy"
    /\ \E copied \in 0..2 :
         LET files == IF copied = 0 THEN {}
                      ELSE IF copied = 1 THEN {"install-config"}
                      ELSE {"install-config", "agent-config"}
             f1 == [fs EXCEPT !.tempFiles = @ \cup files]
         IN  IF copied = 2
               THEN /\ fs' = f1
                    /\ pc' = StepAfter(pc) /\ ret' = ret
               ELSE /\ fs' = deferredRemoveAll(f1, TRUE)
                    /\ pc' = "idle" /\ ret' = "err:copy"
    /\ UNCHANGED <<opts, run>>
    /\ IsoFrame

\* The auxiliary artifacts a successful installer may leave in the working
\* directory: none, all but the credentials directory, all.
AuxProduced == {{}, {"log", "state"}, {"auth", "log", "state"}}

\* generateISOFiles, cmd.Run of the installer found, in the working
\* directory.
runInstaller ==
    /\ pc = "install"
    /\ \E ok \in BOOLEAN, aux \in AuxProduced :
         LET f1 == [fs EXCEPT !.invoked = findOpenshiftInstall(fs),
                              !.installerRuns = @ + 1]
         IN  IF ok
               THEN /\ fs' = [f1 EXCEPT !.tempFiles = @ \cup {"image"} \cup aux]
                    /\ pc' = StepAfter(pc) /\ ret' = ret
               ELSE /\ fs' = onInstallerError(f1, run)
                    /\ pc' = "idle" /\ ret' = "err:installer"
    /\ UNCHANGED <<opts, run>>
    /\ IsoFrame

\* The move of the image with its error ignored.
moveImageUnchecked ==
    /\ pc = "move"
    /\ \E ok \in BOOLEAN :
         /\ fs' = IF ok THEN [fs EXCEPT !.iso = By(run), !.tempFiles = @ \ {"image"}] ELSE fs
         /\ pc' = StepAfter(pc) /\ ret' = ret
    /\ UNCHANGED <<opts, run>>
    /\ IsoFrame

\* generateISOFiles, utils.MoveFile of the image to the final path.
moveImage ==
    /\ pc = "move"
    /\ \E ok \in BOOLEAN :
         IF ok
           THEN /\ fs' = [fs EXCEPT !.iso = By(run), !.tempFiles = @ \ {"image"}]
                /\ pc' = StepAfter(pc) /\ ret' = ret
           ELSE /\ fs' = deferredRemoveAll(fs, TRUE)
                /\ pc' = "idle" /\ ret' = "err:move"
    /\ UNCHANGED <<opts, run>>
    /\ IsoFrame

\* A failed copy of an auxiliary artifact made fatal.
afterAuxCopyFatal(step, failed) ==
    IF failed THEN [pc |-> "idle", ret |-> "err:aux"]
    ELSE [pc |-> StepAfter(step), ret |-> IF StepAfter(step) = "idle" THEN "ok" ELSE "none"]

\* generateISOFiles after the copy of one auxiliary artifact: a failure is
\* only warned about; the loop goes on, and after the last artifact
\* generateISOFiles returns the final path.
afterAuxCopy(step, failed) ==
    [pc |-> StepAfter(step), ret |-> IF StepAfter(step) = "idle" THEN "ok" ELSE "none"]

\* generateISOFiles, one turn of the loop over filesToCopy: the artifact is
\* copied into the ignition directory if os.Stat finds it in the working
\* directory; after the last turn generateISOFiles returns.
copyAuxiliary ==
    /\ pc \in AuxSteps
    /\ \E i \in DOMAIN filesToCopy, ok \in BOOLEAN :
         LET file == filesToCopy[i]
             found == file \in fs.tempFiles
             f1 == IF found /\ ok THEN [fs EXCEPT !.ignition = @ \cup {file}] ELSE fs
             go == afterAuxCopy(pc, found /\ ~ok)
         IN  /\ pc = AuxStep[file]
             /\ pc' = go.pc
             /\ ret' = IF go.pc = "idle" THEN go.ret ELSE ret
             /\ fs' = IF go.pc = "idle" THEN deferredRemoveAll(f1, go.ret # "ok") ELSE f1
    /\ UNCHANGED <<opts, run>>
    /\ IsoFrame

\* The process is killed between two steps; the files stay as they are.
KillISO ==
    /\ pc # "idle"
    /\ pc' = "idle" /\ ret' = "killed"
    /\ UNCHANGED <<fs, opts, run>>
    /\ IsoFrame

IsoNext ==
    \/ \E force \in BOOLEAN : GenerateISO(force)
    \/ ValidateConfig
    \/ createInstallationDirs
    \/ generateInstallConfig
    \/ generateAgentConfig
    \/ generateISOFiles
    \/ copyDocuments
    \/ runInstaller
    \/ moveImage
    \/ copyAuxiliary
    \/ KillISO

Spec == IsoInit /\ [][IsoNext]_vars

\* C1: whenever GenerateISO is entered without Force while the final image
\* exists, that step returns success ("ok", back to idle: no later step of the
\* call runs) and leaves every file and directory as it was, whatever the
\* state of the installer binaries and the raw credential.
C1_IdempotencyGate ==
    [][ (pc = "idle" /\ run' = run + 1 /\ ~opts'.Force /\ fs.iso # "absent")
          => (fs' = fs /\ ret' = "ok" /\ pc' = "idle") ]_vars

\* C1 witness: a gated call has returned success although neither the
\* downloaded installer nor the raw credential exists.
C1_Witness ==
    /\ run > 0 /\ pc = "idle" /\ ret = "ok" /\ ~opts.Force
    /\ fs.tool = Absent /\ fs.pullSecret = "absent" /\ fs.iso # "absent"
    /\ fs.nDirs = 0 /\ fs.installerRuns = 0

\* The file holds a whole rendered document.
Rendered(doc) == doc \notin {NoDoc, PartialDoc}

C12_MergedReuse ==
    [][ /\ fs.merged # Absent => fs'.merged = fs.merged
        /\ fs'.pullSecret = fs.pullSecret
        /\ (pc = "installcfg" /\ fs.merged # Absent /\ pc' = "agentcfg")
             => fs'.installCfg[1] = TrimSpace(fs.merged) ]_vars

\* C12 witness: a merged file that ends in a newline was found, its trimmed
\* contents were embedded and the file is as it was, although the raw
\* credential could have been merged anew.
C12_Witness ==
    /\ pc = "agentcfg" /\ fs.merged = "merged\n" /\ fs.pullSecret = "json\n"
    /\ fs.installCfg[1] = "merged"

\* C13: when generateInstallConfig starts without a merged credential file
\* and the merge fails (no whole merged file afterwards), the credential
\* step fails exactly when the raw credential cannot be read, and otherwise
\* the credential embedded is the trimmed raw credential.
C13_MergeFallback ==
    [][ ( /\ pc = "installcfg" /\ fs.merged = Absent
          /\ fs'.merged \in {Absent, Truncated} /\ ret' # "killed" )
        => /\ ret' = "err:pullsecret" <=> ~RawReadable(fs)
           /\ pc' = "agentcfg" => fs'.installCfg[1] = TrimSpace(fs.pullSecret) ]_vars

\* C13 witness: the raw credential is not JSON, there is no merged file,
\* and the install document was rendered with the trimmed raw credential.
C13_Witness ==
    /\ pc = "agentcfg" /\ fs.pullSecret = "text\n" /\ fs.merged = Absent
    /\ fs.installCfg[1] = "text"

\* C15: the merged credential path holds no file or a whole merged
\* document, and no install document embeds a truncated credential.
C15_AllOrNothingMerged ==
    /\ fs.merged # Truncated
    /\ Rendered(fs.installCfg) => fs.installCfg[1] # Truncated

\* C16: the entry of GenerateISO changes no file, and when validation runs
\* while the downloaded installer or the raw credential does not exist, the
\* call returns the validation error having changed nothing: no directory,
\* no credential, no document, no working directory, no installer started.
C16_PreconditionsFirst ==
    [][ /\ pc = "idle" => fs' = fs
        /\ ( /\ pc = "validate" /\ ret' # "killed"
             /\ (fs.tool = Absent \/ fs.pullSecret = Absent) )
           => (pc' = "idle" /\ ret' = "err:validate" /\ fs' = fs) ]_vars

\* C16 witness: a forced call over an existing image, with the per-version
\* installer but without the downloaded one, has failed in validation and
\* nothing was made.
C16_Witness ==
    /\ run = 1 /\ pc = "idle" /\ ret = "err:validate" /\ opts.Force
    /\ fs.tool = Absent /\ fs.extracted /\ fs.pullSecret = "json\n"
    /\ fs.iso = "old" /\ fs.nDirs = 0 /\ fs.merged = Absent
    /\ fs.installCfg = NoDoc /\ fs.agentCfg = NoDoc /\ ~fs.temp
    /\ fs.installerRuns = 0

C18_BothLocationsNamed ==
    ( /\ pc = "idle" /\ run > 0 /\ ret \notin {"none", "ok", "killed"}
      /\ fs.tool = Absent /\ ~fs.extracted )
    => ret = "err:noinstaller"

\* C19: every return of generateISOFiles after it made the working
\* directory leaves no working directory.
C19_WorkingDirRemoved ==
    [][ (pc \in {"copy", "install", "move"} \cup AuxSteps /\ pc' = "idle" /\ ret' # "killed")
        => (~fs'.temp /\ fs'.tempFiles = {}) ]_vars

\* C19 witness: the installer has failed and the working directory, made
\* and filled before, is gone.
C19_Witness ==
    /\ pc = "idle" /\ ret = "err:installer" /\ fs.installerRuns = 1 /\ ~fs.temp

\* C20: when the installer was started and left no image, the call returns
\* the installer error at once, the final image path is as it was and no
\* auxiliary artifact was copied.
C20_InstallerFailure ==
    [][ (pc = "install" /\ fs'.installerRuns # fs.installerRuns /\ "image" \notin fs'.tempFiles)
        => /\ pc' = "idle" /\ ret' = "err:installer"
           /\ fs'.iso = fs.iso /\ fs'.ignition = fs.ignition ]_vars

\* C20 witness: a forced call over an existing image has failed in the
\* installer and the old image is still there.
C20_Witness ==
    /\ pc = "idle" /\ ret = "err:installer" /\ opts.Force /\ run = 1
    /\ fs.iso = "old" /\ fs.ignition = {} /\ fs.installerRuns = 1

\* C21: once the image has been moved, neither a missing auxiliary artifact
\* nor a failed copy of one changes the outcome: each turn of the copy loop
\* goes on to the next artifact, the last one returns success, and the final
\* image stays the one this invocation moved.
C21_AuxiliaryBestEffort ==
    [][ (pc \in AuxSteps /\ ret' # "killed")
          => /\ fs'.iso = fs.iso /\ fs.iso = By(run)
             /\ (pc = "copy:auth" => pc' = "copy:log")
             /\ (pc = "copy:log" => pc' = "copy:state")
             /\ (pc = "copy:state" => pc' = "idle" /\ ret' = "ok") ]_vars

\* The first invocation returned success although the credentials directory
\* was missing and the copy of the install log failed; the install state,
\* the artifact after the failed one, was still copied.
C21_Witness ==
    /\ pc = "idle" /\ ret = "ok" /\ run = 1
    /\ fs.iso = By(1) /\ fs.ignition = {"state"}

\* C29: a run goes through its steps in the one order validate, create
\* directories, render install document, render host document, create the
\* working directory, copy the documents, invoke the installer, move the
\* image, copy the auxiliary artifacts, and ends with the working directory
\* removed; a run that ends before the auxiliary copy ends with an error,
\* having invoked no installer, moved no image and copied no artifact after
\* the failing step; and when the installer is invoked, both documents in
\* the working directory were rendered by the same invocation.
C29_StepOrdering ==
    [][ /\ (pc # "idle" /\ pc' # "idle") =>
             \/ pc = "validate"   /\ pc' = "mkdirs"
             \/ pc = "mkdirs"     /\ pc' = "installcfg"
             \/ pc = "installcfg" /\ pc' = "agentcfg"
             \/ pc = "agentcfg"   /\ pc' = "isofiles"
             \/ pc = "isofiles"   /\ pc' = "copy"
             \/ pc = "copy"       /\ pc' = "install"
             \/ pc = "install"    /\ pc' = "move"
             \/ pc = "move"       /\ pc' = "copy:auth"
             \/ pc = "copy:auth"  /\ pc' = "copy:log"
             \/ pc = "copy:log"   /\ pc' = "copy:state"
        /\ (pc = "idle" /\ pc' # "idle") => pc' = "validate"
        /\ (pc \notin {"idle"} \cup AuxSteps /\ pc' = "idle") =>
             /\ ret' \notin {"ok", "none"}
             /\ fs'.iso = fs.iso /\ fs'.ignition = fs.ignition
             /\ pc # "install" => fs'.installerRuns = fs.installerRuns
             /\ (pc \in {"copy", "install", "move"} /\ ret' # "killed") => ~fs'.temp
        /\ pc' = "install" =>
             /\ fs'.installBy = run' /\ fs'.agentBy = run'
             /\ Rendered(fs'.installCfg) /\ Rendered(fs'.agentCfg)
             /\ {"install-config", "agent-config"} \subseteq fs'.tempFiles ]_vars

\* The second, forced invocation is about to invoke the installer: the
\* documents of the first invocation, which ran to its end, have been
\* rendered anew.
C29_Witness ==
    /\ pc = "install" /\ run = 2 /\ fs.iso = By(1)
    /\ fs.installBy = 2 /\ fs.agentBy = 2
    /\ {"install-config", "agent-config"} \subseteq fs.tempFiles

\* C34: a call of GenerateISO returns success only when the final image
\* exists; no step removes an image that exists; and a call without Force
\* that finds it returns success at once, the installer not run again.
C34_SuccessIsLasting ==
    [][ /\ (pc' = "idle" /\ ret' = "ok" /\ run' > 0) => fs'.iso # Absent
        /\ fs.iso # Absent => fs'.iso # Absent
        /\ (pc = "idle" /\ run' = run + 1 /\ ~opts'.Force /\ fs.iso # Absent)
              => (pc' = "idle" /\ ret' = "ok" /\ fs'.installerRuns = fs.installerRuns) ]_vars

\* C34 witness: the first call ran the installer and returned success, and
\* the second, without Force, returned success on the image of the first.
C34_Witness ==
    /\ run = 2 /\ pc = "idle" /\ ret = "ok" /\ ~opts.Force
    /\ fs.iso = By(1) /\ fs.installerRuns = 1

\* C38: when the installer is about to be run, the working directory holds
\* the two documents of this call, copied from those it rendered, and
\* nothing else, whatever an earlier call left behind.
C38_CleanWorkingDir ==
    pc = "install" =>
       /\ fs.tempFiles = {"install-config", "agent-config"}
       /\ fs.installBy = run /\ fs.agentBy = run

\* C39: once a call of GenerateISO has returned success, after whatever
\* kills of earlier calls, the final image exists and no auxiliary artifact
\* of the installer is left in the working directory only: each is in the
\* ignition directory.
C39_RecoveryCompletes ==
    (pc = "idle" /\ ret = "ok" /\ run > 0) =>
       /\ fs.iso # Absent
       /\ (fs.tempFiles \cap {"auth", "log", "state"}) \subseteq fs.ignition

(***************************************************************************)
(*                  pkg/catalognew: CatalogManagerNew                      *)
(***************************************************************************)

\* Cache validity window in hours (24*time.Hour).
TTL == 24

\* The clock stops here.
MaxNow == 50

\* Number of pieces the encoder's output reaches the file in.
DocLen == 2

\* The operator lists the catalog query may yield, already converted.
Docs == {"A", "B"}

\* A file: whether it exists, which document it holds, how much of the
\* document has been written, and its last-write time.
NoFile == [ex |-> FALSE, doc |-> "", n |-> 0, mtime |-> 0]
File(d, k, t) == [ex |-> TRUE, doc |-> d, n |-> k, mtime |-> t]

\* The file decodes as a JSON document.
Complete(f) == f.ex /\ f.n = DocLen

\* What a call remembers, and what is recorded of a call that ended: need
\* and took are the minutes the catalog query needed and was given, chain
\* is the chain of the returned error, outermost first.
NoMem == [ops |-> "", fetches |-> 0, f0 |-> NoFile, t0 |-> 0, need |-> 0, took |-> 0]
NoRet == [st |-> "none", ops |-> "", src |-> "", err |-> "", at |-> "",
          fetches |-> 0, got |-> "", f0 |-> NoFile, t0 |-> 0,
          need |-> 0, took |-> 0, chain |-> <<>>]

CacheInit ==
    /\ cacheFile \in {NoFile} \cup {File(d, DocLen, 0) : d \in Docs}
    /\ tmpFile = NoFile
    /\ now = 0
    /\ cpc = "idle"
    /\ cmem = NoMem
    /\ cret = NoRet
    /\ IsoOff /\ FnOff

CacheFrame == UNCHANGED <<isoVars, fnVars>>

\* isCacheValid with the comparison <= in place of <.
isCacheValidInclusive(f, t) == f.ex /\ t - f.mtime <= TTL

\* isCacheValid: the file can be stat'ed and time.Since(ModTime) < 24h.
isCacheValid(f, t) == f.ex /\ t - f.mtime < TTL

\* How a finished call is recorded.
Return(st, ops, src, err) ==
    [st |-> st, ops |-> ops, src |-> src, err |-> err, at |-> cpc,
     fetches |-> cmem.fetches, got |-> cmem.ops, f0 |-> cmem.f0, t0 |-> cmem.t0,
     need |-> cmem.need, took |-> cmem.took, chain |-> <<>>]

\* A failed download answered with the records of the old cache file.
onDownloadErrorServeStale(m) ==
    IF m.f0.ex THEN [Return("ok", m.f0.doc, "cache", "") EXCEPT !.fetches = m.fetches]
    ELSE [Return("err", "", "", "fetch") EXCEPT !.fetches = m.fetches]

\* GetAllOperators, `if err != nil { return nil, ... }` after the download.
onDownloadError(m) ==
    [Return("err", "", "", "fetch") EXCEPT !.fetches = m.fetches]

\* The path writeOperatorsToCache would write were it to write in place.
WriteTargetInPlace == "cache"

\* writeOperatorsToCache: tempCacheFile := cm.CacheFile + ".tmp".
WriteTarget == "tmp"

\* GetAllOperators, entry: MkdirAll(CacheDir), then the validity check.
\* MkdirAll of a directory that holds a file cannot fail.
GetAllOperators ==
    /\ cpc = "idle"
    /\ \E mkdirOK \in BOOLEAN :
         LET m == [NoMem EXCEPT !.f0 = cacheFile, !.t0 = now] IN
         IF ~mkdirOK
           THEN /\ ~cacheFile.ex /\ ~tmpFile.ex
                /\ cret' = [NoRet EXCEPT !.st = "err", !.err = "mkdir", !.at = "entry",
                                         !.f0 = cacheFile, !.t0 = now]
                /\ UNCHANGED <<cpc, cmem>>
           ELSE /\ cmem' = m
                /\ cpc' = IF isCacheValid(cacheFile, now) THEN "read" ELSE "download"
                /\ cret' = NoRet
    /\ UNCHANGED <<cacheFile, tmpFile, now>>
    /\ CacheFrame

\* readAllOperatorsFromCache: open and decode the cache file.
readAllOperatorsFromCache ==
    /\ cpc = "read"
    /\ cret' = IF ~cacheFile.ex THEN Return("err", "", "", "open")
               ELSE IF ~Complete(cacheFile) THEN Return("err", "", "", "decode")
               ELSE Return("ok", cacheFile.doc, "cache", "")
    /\ cpc' = "idle"
    /\ cmem' = NoMem
    /\ UNCHANGED <<cacheFile, tmpFile, now>>
    /\ CacheFrame

\* cm.DownloadTimeout in minutes (10 * time.Minute).
DownloadTimeout == 10

\* The catalog query engine under a deadline: a query that needs longer
\* than the deadline allows is cancelled at the deadline and returns the
\* deadline as its error; else it returns its result, records or a data
\* error, after the time it needs.
OperatorImageCollector(deadline, need, result) ==
    IF need > deadline
      THEN [err |-> TRUE, cause |-> "deadline", took |-> deadline, ops |-> ""]
    ELSE IF result = "fetcherr"
      THEN [err |-> TRUE, cause |-> "data", took |-> need, ops |-> ""]
      ELSE [err |-> FALSE, cause |-> "", took |-> need, ops |-> result]

\* An error wrapped with %v: the text only, the chain is lost.
wrapErrorText(chain) == <<"text">>

\* fmt.Errorf("...: %w", err), in downloadCatalogUsingMirror and again in
\* GetAllOperators: a new error in front of the chain of the wrapped one.
wrapError(chain) == <<"text">> \o chain

\* downloadCatalogUsingMirror: the temporary working directory, then one
\* OperatorImageCollector call under the timeout, then the conversion.
downloadCatalogUsingMirror ==
    /\ cpc = "download"
    /\ \E outcome \in {"tempdir", "fetcherr"} \cup Docs,
          need \in {DownloadTimeout - 1, DownloadTimeout + 1} :
         LET r == OperatorImageCollector(DownloadTimeout, need, outcome)
             m == [cmem EXCEPT !.fetches = @ + 1, !.need = need, !.took = r.took]
         IN
         IF outcome = "tempdir"
           THEN /\ cret' = Return("err", "", "", "tempdir")
                /\ cpc' = "idle" /\ cmem' = NoMem
         ELSE IF r.err
           THEN /\ cret' = [onDownloadError(m) EXCEPT
                              !.need = m.need, !.took = m.took,
                              !.chain = wrapError(wrapError(<<r.cause>>))]
                /\ cpc' = "idle" /\ cmem' = NoMem
           ELSE /\ cmem' = [m EXCEPT !.ops = r.ops]
                /\ cpc' = "create"
                /\ cret' = cret
    /\ UNCHANGED <<cacheFile, tmpFile, now>>
    /\ CacheFrame

\* writeOperatorsToCache, os.Create: the file is created or truncated.
createTemp ==
    /\ cpc = "create"
    /\ \E ok \in BOOLEAN :
         IF ok
           THEN /\ IF WriteTarget = "tmp"
                     THEN tmpFile' = File(cmem.ops, 0, now) /\ cacheFile' = cacheFile
                     ELSE cacheFile' = File(cmem.ops, 0, now) /\ tmpFile' = tmpFile
                /\ cpc' = "encode"
                /\ UNCHANGED <<cmem, cret>>
           ELSE /\ cret' = Return("err", "", "", "create")
                /\ cpc' = "idle" /\ cmem' = NoMem
                /\ UNCHANGED <<cacheFile, tmpFile>>
    /\ now' = now
    /\ CacheFrame

\* writeOperatorsToCache, encoder.Encode: the document reaches the file piece
\* by piece; on an error the file is closed and removed.
encode ==
    /\ cpc = "encode"
    /\ LET f == IF WriteTarget = "tmp" THEN tmpFile ELSE cacheFile IN
       \E ok \in BOOLEAN :
         IF ok
           THEN /\ IF WriteTarget = "tmp"
                     THEN tmpFile' = File(f.doc, f.n + 1, now) /\ cacheFile' = cacheFile
                     ELSE cacheFile' = File(f.doc, f.n + 1, now) /\ tmpFile' = tmpFile
                /\ cpc' = IF f.n + 1 = DocLen THEN "rename" ELSE "encode"
                /\ UNCHANGED <<cmem, cret>>
           ELSE /\ IF WriteTarget = "tmp"
                     THEN tmpFile' = NoFile /\ cacheFile' = cacheFile
                     ELSE cacheFile' = NoFile /\ tmpFile' = tmpFile
                /\ cret' = Return("err", "", "", "encode")
                /\ cpc' = "idle" /\ cmem' = NoMem
    /\ now' = now
    /\ CacheFrame

\* writeOperatorsToCache, os.Rename over the target; on an error the
\* temporary file is removed.  GetAllOperators then returns the operators.
rename ==
    /\ cpc = "rename"
    /\ \E ok \in BOOLEAN :
         IF ok
           THEN /\ IF WriteTarget = "tmp"
                     THEN cacheFile' = tmpFile /\ tmpFile' = NoFile
                     ELSE UNCHANGED <<cacheFile, tmpFile>>
                /\ cret' = Return("ok", cmem.ops, "fetch", "")
           ELSE /\ IF WriteTarget = "tmp"
                     THEN tmpFile' = NoFile /\ cacheFile' = cacheFile
                     ELSE cacheFile' = NoFile /\ tmpFile' = tmpFile
                /\ cret' = Return("err", "", "", "rename")
    /\ cpc' = "idle" /\ cmem' = NoMem
    /\ now' = now
    /\ CacheFrame

\* The process is killed in the middle of a call; the files stay as they are.
Kill ==
    /\ cpc # "idle"
    /\ cret' = Return("killed", "", "", "")
    /\ cpc' = "idle" /\ cmem' = NoMem
    /\ UNCHANGED <<cacheFile, tmpFile, now>>
    /\ CacheFrame

\* Time passes.
Tick ==
    /\ \E d \in {TTL - 1, TTL, TTL + 1} :
         /\ now + d <= MaxNow
         /\ now' = now + d
    /\ UNCHANGED <<cacheFile, tmpFile, cpc, cmem, cret>>
    /\ CacheFrame

CacheNext ==
    \/ GetAllOperators
    \/ readAllOperatorsFromCache
    \/ downloadCatalogUsingMirror
    \/ createTemp
    \/ encode
    \/ rename
    \/ Kill
    \/ Tick

SpecCache == CacheInit /\ [][CacheNext]_vars

\* The call whose return cret records has returned (it was not killed).
Returned(r) == r.st \in {"ok", "err"}

\* C2: with a single writer, whatever the point at which the process is
\* killed, the file at the cache path is absent or holds a complete document,
\* namely the one it held when the call began or the one the call fetched;
\* and a read of the cache file never fails to open or decode it.
C2_CrashSafeCache ==
    /\ cacheFile.ex => cacheFile.n = DocLen
    /\ cpc # "idle" =>
         \/ cacheFile = cmem.f0
         \/ Complete(cacheFile) /\ cacheFile.doc = cmem.ops
    /\ cret.st = "killed" =>
         \/ cacheFile = cret.f0
         \/ Complete(cacheFile) /\ cacheFile.doc = cret.got
    /\ cret.err \notin {"open", "decode"}

\* C2 witness: the process was killed after the temporary file was written
\* in full and before the rename; the cache file still holds the complete
\* previous document, a different one.
C2_Witness ==
    /\ cret.st = "killed" /\ cret.at = "rename"
    /\ tmpFile.ex /\ tmpFile.n = DocLen
    /\ cacheFile.ex /\ cacheFile.n = DocLen /\ cacheFile.doc # tmpFile.doc
    /\ cacheFile = cret.f0

\* C3 as stated: a call that found the cache file less than 24 hours old
\* returns its records without any fetch; any other call that returns has
\* invoked the collaborator exactly once, and the converted result it got
\* is persisted and returned.
C3_AsStated ==
    Returned(cret) =>
      IF cret.f0.ex /\ cret.t0 - cret.f0.mtime < 24
        THEN /\ cret.st = "ok" /\ cret.src = "cache"
             /\ cret.ops = cret.f0.doc /\ cret.fetches = 0
        ELSE /\ cret.fetches = 1
             /\ cret.got # "" =>
                  /\ cret.st = "ok" /\ cret.ops = cret.got
                  /\ cacheFile.ex /\ cacheFile.n = DocLen /\ cacheFile.doc = cret.got

\* C3, amended: a call that found the cache file less than 24 hours old
\* returns its records without any fetch; any other call that returns has
\* invoked the collaborator at most once, exactly once unless creating the
\* cache directory or the temporary working directory failed; it succeeds
\* exactly when the fetch and the cache write succeeded, and then the
\* converted result is what the cache file holds and what is returned.
C3_TTLDecision ==
    Returned(cret) =>
      IF cret.f0.ex /\ cret.t0 - cret.f0.mtime < 24
        THEN /\ cret.st = "ok" /\ cret.src = "cache"
             /\ cret.ops = cret.f0.doc /\ cret.fetches = 0
        ELSE /\ cret.fetches <= 1
             /\ cret.fetches = 1 <=> cret.err \notin {"mkdir", "tempdir"}
             /\ cret.st = "ok" <=> cret.err = ""
             /\ cret.st = "ok" =>
                  /\ cret.src = "fetch" /\ cret.got \in Docs /\ cret.ops = cret.got
                  /\ cacheFile.ex /\ cacheFile.n = DocLen /\ cacheFile.doc = cret.got
                  /\ cacheFile.mtime >= cret.t0
             /\ cret.st = "err" => cret.ops = ""

\* C3 witness: a call found the cache file exactly 24 hours old, fetched
\* once, and the fetched records are in the cache file and were returned.
C3_Witness ==
    /\ cret.st = "ok" /\ cret.src = "fetch" /\ cret.fetches = 1
    /\ cret.f0.ex /\ cret.t0 - cret.f0.mtime = 24
    /\ cacheFile.doc = cret.ops /\ cacheFile.doc # cret.f0.doc

\* C4: a call made when the cache file is 24 hours old or older never
\* returns records read from the cache; if it returns an error (the refetch
\* failed), it returns no records and the cache file is as the call found it.
C4_NoExpiredEntry ==
    (Returned(cret) /\ cret.f0.ex /\ cret.t0 - cret.f0.mtime >= 24) =>
       /\ cret.src # "cache"
       /\ cret.err = "fetch" => cret.st = "err"
       /\ cret.st = "err" => (cret.ops = "" /\ cacheFile = cret.f0)

\* C4 witness: the refetch of an expired entry failed; the call returned an
\* error and the expired file is still there, unchanged.
C4_Witness ==
    /\ cret.st = "err" /\ cret.err = "fetch" /\ cret.fetches = 1
    /\ cret.f0.ex /\ cret.t0 - cret.f0.mtime >= 24
    /\ cacheFile = cret.f0 /\ cret.ops = ""

\* C28: no catalog query is given more than ten minutes; a query that
\* needs longer is cancelled at ten minutes, the call returns an error
\* whose chain holds the deadline, which a data error's chain does not,
\* and the cache file is as the call found it.
C28_BoundedFetch ==
    (Returned(cret) /\ cret.fetches = 1) =>
       /\ cret.took <= 10
       /\ cret.need > 10 =>
            /\ cret.st = "err" /\ cret.took = 10
            /\ \E i \in DOMAIN cret.chain : cret.chain[i] = "deadline"
            /\ cacheFile = cret.f0
       /\ (cret.st = "err" /\ cret.need <= 10 /\ cret.at = "download")
            => \A i \in DOMAIN cret.chain : cret.chain[i] # "deadline"

\* The refetch of an expired entry ran into the deadline: the call failed
\* after ten minutes and the expired file is still in place.
C28_Witness ==
    /\ cret.st = "err" /\ cret.chain = <<"text", "text", "deadline">>
    /\ cret.took = 10 /\ cret.need = 11
    /\ cret.f0.ex /\ cacheFile = cret.f0

(***************************************************************************)
(*               pkg/save: operator-name resolution                        *)
(***************************************************************************)
\* Strings are sequences of pieces of text.  No piece occurs inside another
\* piece or across the join of two pieces, so equality and containment of
\* the strings are equality and contiguous containment of the sequences.
\* "Logging" differs from "logging" in letter case only.

\* strings.Contains(s, sub)
Contains(s, sub) ==
    \E i \in 0..(Len(s) - Len(sub)) : SubSeq(s, i + 1, i + Len(sub)) = sub

\* strings.ToLower(s)
ToLower(s) == [i \in DOMAIN s |-> IF s[i] = "Logging" THEN "logging" ELSE s[i]]

\* The least element of a non-empty set of indices.
MinOf(S) == CHOOSE i \in S : \A j \in S : i <= j

\* The positions of a loop over n elements that are in S, in loop order.
Positions(n, S) ==
    SelectSeq([i \in 1..n |-> i], LAMBDA i : i \in S)

\* The first n elements of a sequence.
FirstN(q, n) == IF Len(q) <= n THEN q ELSE SubSeq(q, 1, n)

sCLO      == <<"cluster-", "logging", "-operator">>
sLSO      == <<"local-", "storage", "-operator">>

\* aliasMap of getOperatorDefaultChannel
aliasKeys ==
    { <<"cluster-", "logging">>, <<"logging">>, sLSO,
      <<"local-", "storage">>, <<"openshift-", "logging">> }
aliasMap ==
    [k \in aliasKeys |-> IF k \in {sLSO, <<"local-", "storage">>} THEN sLSO ELSE sCLO]

\* keywords of findSimilarOperators, in order
keywords ==
    << <<"logging">>, <<"storage">>, <<"monitoring">>, <<"network">>,
       <<"security">>, <<"backup">> >>

\* The cap on the number of suggestions.
MaxSuggestions == 5

NoRec == [Name |-> <<>>, DisplayName |-> <<>>, DefaultChannel |-> ""]
Found(op)        == [kind |-> "ok", rec |-> op, names |-> <<>>]
Failed(kind, ns) == [kind |-> kind, rec |-> NoRec, names |-> ns]

\* findSimilarOperators with the cap on the suggestions left out.
findSimilarOperatorsUncapped(target, operators) ==
    LET t  == ToLower(target)
        ks == Positions(Len(keywords), {k \in DOMAIN keywords : Contains(t, keywords[k])})
    IN  IF ks = <<>> THEN <<>>
        ELSE LET keyword == keywords[ks[1]]
                 hit == Positions(Len(operators), {i \in DOMAIN operators :
                                     Contains(ToLower(operators[i].Name), keyword)})
             IN  [j \in 1..Len(hit) |-> operators[hit[j]].Name]

\* findSimilarOperators: the first keyword the lower-cased target contains;
\* up to five operators whose lower-cased name contains that keyword.
findSimilarOperators(target, operators) ==
    LET t  == ToLower(target)
        ks == Positions(Len(keywords), {k \in DOMAIN keywords : Contains(t, keywords[k])})
    IN  IF ks = <<>> THEN <<>>
        ELSE LET keyword == keywords[ks[1]]
                 hit == Positions(Len(operators), {i \in DOMAIN operators :
                                     Contains(ToLower(operators[i].Name), keyword)})
             IN  FirstN([j \in 1..Len(hit) |-> operators[hit[j]].Name], MaxSuggestions)

\* Tier 1: the operators whose name or display name is the identifier.
exactMatches(operatorName, operators) ==
    Positions(Len(operators), {i \in DOMAIN operators :
                                 \/ operators[i].Name = operatorName
                                 \/ operators[i].DisplayName = operatorName})

\* Tier 2: the operators whose name or display name is the alias's target.
aliasMatches(operatorName, operators) ==
    IF operatorName \in aliasKeys
      THEN exactMatches(aliasMap[operatorName], operators)
      ELSE <<>>

\* Tier 3: the operators whose name or display name contains the identifier.
candidates(operatorName, operators) ==
    Positions(Len(operators), {i \in DOMAIN operators :
                                 \/ Contains(operators[i].Name, operatorName)
                                 \/ Contains(operators[i].DisplayName, operatorName)})

\* Tiers 3 and 4 with the first of several candidates picked.
fuzzyOrNotFoundFirstPick(operatorName, operators) ==
    LET c == candidates(operatorName, operators) IN
    IF Len(c) >= 1 THEN Found(operators[c[1]])
    ELSE LET sg == findSimilarOperators(operatorName, operators) IN
         IF Len(sg) > 0 THEN Failed("suggest", sg) ELSE Failed("notfound", <<>>)

\* Tiers 3 and 4: one candidate is returned, several are an error naming
\* them all, none is an error with the suggestions.
fuzzyOrNotFound(operatorName, operators) ==
    LET c == candidates(operatorName, operators) IN
    IF Len(c) = 1 THEN Found(operators[c[1]])
    ELSE IF Len(c) > 1
      THEN Failed("ambiguous", [j \in 1..Len(c) |-> operators[c[j]].Name])
    ELSE LET sg == findSimilarOperators(operatorName, operators) IN
         IF Len(sg) > 0 THEN Failed("suggest", sg) ELSE Failed("notfound", <<>>)

\* The matching with the containment tier tried before the alias table.
getOperatorDefaultChannelFuzzyFirst(operatorName, operators) ==
    LET e == exactMatches(operatorName, operators)
        a == aliasMatches(operatorName, operators)
        c == candidates(operatorName, operators)
    IN  IF e # <<>> THEN Found(operators[e[1]])
        ELSE IF c # <<>> THEN fuzzyOrNotFound(operatorName, operators)
        ELSE IF a # <<>> THEN Found(operators[a[1]])
        ELSE fuzzyOrNotFound(operatorName, operators)

\* The matching with the exact tier comparing the name only.
getOperatorDefaultChannelNameOnly(operatorName, operators) ==
    LET e == Positions(Len(operators), {i \in DOMAIN operators : operators[i].Name = operatorName})
        a == aliasMatches(operatorName, operators)
    IN  IF e # <<>> THEN Found(operators[e[1]])
        ELSE IF a # <<>> THEN Found(operators[a[1]])
        ELSE fuzzyOrNotFound(operatorName, operators)

\* getOperatorDefaultChannel, the matching of an identifier against the
\* operators read from operators.json: exact, alias, containment, suggestions.
getOperatorDefaultChannel(operatorName, operators) ==
    LET e == exactMatches(operatorName, operators)
        a == aliasMatches(operatorName, operators)
    IN  IF e # <<>> THEN Found(operators[e[1]])
        ELSE IF a # <<>> THEN Found(operators[a[1]])
        ELSE fuzzyOrNotFound(operatorName, operators)

\* Longest operator list of the general inputs, and of the inputs that
\* exercise the cap on the suggestions.
MaxOps == 2
MaxSuggestOps == 6

\* All sequences over S of length at most n.
SeqUpTo(S, n) == UNION { [1..k -> S] : k \in 0..n }

Op(n, d) == [Name |-> n, DisplayName |-> d, DefaultChannel |-> "stable"]

ResolveNames ==
    { sCLO, <<"logging">>, sLSO, <<"x-", "logging">>, <<"Logging", "-operator">> }
ResolveOps ==
    { Op(n, d) : n \in ResolveNames, d \in {sCLO, <<"Logging">>} }
      \cup { Op(n, n) : n \in ResolveNames }
ResolveIds ==
    aliasKeys \cup
    { sCLO, <<"x-">>, <<"Logging">>, <<"storage">>, <<"-operator">>,
      <<"logging", "x-">> }

SuggestOps ==
    { Op(n, n) : n \in { <<"x-", "logging">>, <<"Logging", "-operator">>,
                         <<"local-", "storage">>, <<"x-">> } }
SuggestIds ==
    { <<"logging", "-operator">>, <<"Logging", "x-">>, <<"x-", "x-">>,
      <<"storage", "logging">> }

ResolveInit ==
    /\ arg \in [id : ResolveIds, ops : SeqUpTo(ResolveOps, MaxOps)]
                 \cup [id : SuggestIds, ops : SeqUpTo(SuggestOps, MaxSuggestOps)]
    /\ out = NotApplied
    /\ IsoOff /\ CacheOff

FnFrame == UNCHANGED <<isoVars, cacheVars>>

\* One resolution of arg.id against arg.ops.
Resolve ==
    /\ out.kind = "none"
    /\ out' = getOperatorDefaultChannel(arg.id, arg.ops)
    /\ arg' = arg
    /\ FnFrame

SpecResolve == ResolveInit /\ [][Resolve]_vars

\* The resolution has been applied to the input.
Resolved == out.kind # "none"

\* The positions of the input's operators that match the identifier exactly,
\* through the alias table, and by containment.
ExactSet ==
    { i \in DOMAIN arg.ops : arg.ops[i].Name = arg.id \/ arg.ops[i].DisplayName = arg.id }
AliasSet ==
    IF arg.id \in aliasKeys
      THEN { i \in DOMAIN arg.ops : \/ arg.ops[i].Name = aliasMap[arg.id]
                                    \/ arg.ops[i].DisplayName = aliasMap[arg.id] }
      ELSE {}
FuzzySet ==
    { i \in DOMAIN arg.ops : \/ Contains(arg.ops[i].Name, arg.id)
                             \/ Contains(arg.ops[i].DisplayName, arg.id) }

\* The j-th smallest element of a set of positions.
Nth(S, j) == CHOOSE i \in S : Cardinality({k \in S : k <= i}) = j

\* C5: if some operator's name or display name equals the identifier, the
\* first such operator in cache order is returned, without error, whatever
\* else contains the identifier and whatever the alias table says.
C5_ExactTier ==
    (Resolved /\ ExactSet # {}) =>
       /\ out.kind = "ok"
       /\ out.rec = arg.ops[MinOf(ExactSet)]

\* C5 witness: the identifier is an alias key whose target is the first
\* operator, which also contains the identifier; the second operator matches
\* exactly and is the one returned.
C5_Witness ==
    /\ Resolved /\ Len(arg.ops) = 2
    /\ ExactSet = {2} /\ 1 \in FuzzySet /\ 1 \in AliasSet
    /\ out.kind = "ok" /\ out.rec = arg.ops[2] /\ arg.ops[1] # arg.ops[2]

\* C6 as stated: an alias-table identifier without exact match resolves to the
\* (first) operator whose name or display name is the alias target, if there
\* is one; and "logging" resolves to the operator named
\* "cluster-logging-operator" whenever that operator is in the cache.
C6_AsStated ==
    /\ (Resolved /\ arg.id \in aliasKeys /\ ExactSet = {} /\ AliasSet # {}) =>
          /\ out.kind = "ok"
          /\ out.rec = arg.ops[MinOf(AliasSet)]
    /\ (Resolved /\ arg.id = <<"logging">>
          /\ \E i \in DOMAIN arg.ops : arg.ops[i].Name = sCLO) =>
          /\ out.kind = "ok"
          /\ out.rec.Name = sCLO

\* C6, amended: an alias-table identifier without exact match resolves to the
\* first operator whose name or display name is the alias target, if there is
\* one, however many operators contain the identifier; so "logging", when no
\* operator's name or display name is "logging", resolves to the first
\* operator whose name or display name is "cluster-logging-operator".
C6_AliasTier ==
    /\ (Resolved /\ arg.id \in aliasKeys /\ ExactSet = {} /\ AliasSet # {}) =>
          /\ out.kind = "ok"
          /\ out.rec = arg.ops[MinOf(AliasSet)]
    /\ (Resolved /\ arg.id = <<"logging">> /\ ExactSet = {}
          /\ \E i \in DOMAIN arg.ops : arg.ops[i].Name = sCLO) =>
          /\ out.kind = "ok"
          /\ out.rec.Name = sCLO \/ out.rec.DisplayName = sCLO
          /\ \A i \in DOMAIN arg.ops :
               (arg.ops[i].Name = sCLO \/ arg.ops[i].DisplayName = sCLO)
                 => \E j \in 1..i : arg.ops[j] = out.rec

\* C6 witness: "logging" matches nothing exactly, two operators contain it,
\* and the one named "cluster-logging-operator", the second, is returned.
C6_Witness ==
    /\ Resolved /\ arg.id = <<"logging">> /\ Len(arg.ops) = 2
    /\ ExactSet = {} /\ FuzzySet = {1, 2} /\ AliasSet = {2}
    /\ out.kind = "ok" /\ out.rec = arg.ops[2] /\ out.rec.Name = sCLO

\* C7: when neither the exact nor the alias tier hits, a single operator
\* containing the identifier is returned; two or more give an error that
\* names every one of them, in cache order, and no operator is returned.
C7_FuzzyTier ==
    (Resolved /\ ExactSet = {} /\ AliasSet = {}) =>
       /\ Cardinality(FuzzySet) = 1 =>
            /\ out.kind = "ok"
            /\ out.rec = arg.ops[MinOf(FuzzySet)]
       /\ Cardinality(FuzzySet) >= 2 =>
            /\ out.kind = "ambiguous"
            /\ out.rec = NoRec
            /\ Len(out.names) = Cardinality(FuzzySet)
            /\ \A j \in 1..Len(out.names) :
                 out.names[j] = arg.ops[Nth(FuzzySet, j)].Name

\* C7 witness: two different operators contain the identifier, neither is
\* an exact or alias match, and the error names both.
C7_Witness ==
    /\ Resolved /\ ExactSet = {} /\ AliasSet = {}
    /\ FuzzySet = {1, 2} /\ arg.ops[1].Name # arg.ops[2].Name
    /\ out.kind = "ambiguous"
    /\ out.names = <<arg.ops[1].Name, arg.ops[2].Name>>

\* Some vocabulary keyword is contained in both strings.
SharedKeyword(a, b) ==
    \E k \in DOMAIN keywords : Contains(a, keywords[k]) /\ Contains(b, keywords[k])
HasKeyword(a) ==
    \E k \in DOMAIN keywords : Contains(a, keywords[k])

\* C8 as stated: when no tier matches, the result is an error with at most
\* five suggestions, each the name of an operator that contains a vocabulary
\* keyword the identifier contains too, and with none if the identifier
\* contains no vocabulary keyword.
C8_AsStated ==
    (Resolved /\ ExactSet = {} /\ AliasSet = {} /\ FuzzySet = {}) =>
       /\ out.kind \in {"suggest", "notfound"}
       /\ out.rec = NoRec
       /\ Len(out.names) <= 5
       /\ \A j \in 1..Len(out.names) :
            /\ \E i \in DOMAIN arg.ops : arg.ops[i].Name = out.names[j]
            /\ SharedKeyword(out.names[j], arg.id)
       /\ ~HasKeyword(arg.id) => out.names = <<>>

\* C8, amended: the same, with containment of the keyword judged without
\* regard to letter case, in the operator's name and in the identifier.
C8_NotFoundTier ==
    (Resolved /\ ExactSet = {} /\ AliasSet = {} /\ FuzzySet = {}) =>
       /\ out.kind \in {"suggest", "notfound"}
       /\ out.rec = NoRec
       /\ Len(out.names) <= 5
       /\ \A j \in 1..Len(out.names) :
            /\ \E i \in DOMAIN arg.ops : arg.ops[i].Name = out.names[j]
            /\ SharedKeyword(ToLower(out.names[j]), ToLower(arg.id))
       /\ ~HasKeyword(ToLower(arg.id)) => out.names = <<>>

\* C8 witness: no tier matches, six operators carry the keyword of the
\* identifier, which has it in another letter case, and five are suggested.
C8_Witness ==
    /\ Resolved /\ ExactSet = {} /\ AliasSet = {} /\ FuzzySet = {}
    /\ ~HasKeyword(arg.id) /\ HasKeyword(ToLower(arg.id))
    /\ Cardinality({ i \in DOMAIN arg.ops :
                       Contains(ToLower(arg.ops[i].Name), <<"logging">>) }) = 6
    /\ out.kind = "suggest" /\ Len(out.names) = 5

(***************************************************************************)
(*        pkg/iso: the latest mirroring run and its mirror mappings        *)
(***************************************************************************)

\* Largest timestamp of a results directory, and the longest listing.
MaxTs == 2
MaxEntries == 3

\* The suffix of a directory name after "results-": digits (num, with the
\* number they spell) or something else.
Suffixes == [num : {TRUE}, val : 0..MaxTs] \cup {[num |-> FALSE, val |-> 0]}

\* utils.ParseTimestamp: the number a purely numeric suffix spells, an
\* error for any other suffix.
ParseTimestamp(sfx) == [err |-> ~sfx.num, val |-> IF sfx.num THEN sfx.val ELSE 0]

\* The entries os.ReadDir(workspaceDir) may list: directories named
\* results-<suffix>, empty or not, a regular file with the prefix, and a
\* directory without it.
DirEntries ==
    [isDir : {TRUE}, prefixed : {TRUE}, empty : BOOLEAN, suffix : Suffixes]
      \cup { [isDir |-> FALSE, prefixed |-> TRUE, empty |-> FALSE,
              suffix |-> [num |-> TRUE, val |-> MaxTs]],
             [isDir |-> TRUE, prefixed |-> FALSE, empty |-> FALSE,
              suffix |-> [num |-> TRUE, val |-> MaxTs]] }

\* The loop of findLatestResultsDir from entry i on, with the directory
\* and the timestamp retained so far (directory 0: none, latestDir == "").
RECURSIVE scanResults(_, _, _, _)
scanResults(entries, i, latestDir, latestTime) ==
    IF i > Len(entries) THEN latestDir
    ELSE LET e == entries[i]
             t == ParseTimestamp(e.suffix)
         IN  IF ~e.isDir \/ ~e.prefixed THEN scanResults(entries, i + 1, latestDir, latestTime)
             ELSE IF e.empty THEN scanResults(entries, i + 1, latestDir, latestTime)
             ELSE IF ~t.err /\ t.val > latestTime
               THEN scanResults(entries, i + 1, i, t.val)
             ELSE scanResults(entries, i + 1, latestDir, latestTime)

\* findLatestResultsDir: the position of the directory selected, or an
\* error when the workspace cannot be listed or nothing was retained.
findLatestResultsDir(listOK, entries) ==
    LET d == scanResults(entries, 1, 0, 0) IN
    IF ~listOK THEN [kind |-> "err", dir |-> 0]
    ELSE IF d = 0 THEN [kind |-> "err", dir |-> 0] ELSE [kind |-> "ok", dir |-> d]

LatestInit ==
    /\ arg \in [listOK : BOOLEAN, entries : SeqUpTo(DirEntries, MaxEntries)]
    /\ out = NotApplied
    /\ IsoOff /\ CacheOff

\* One run of findLatestResultsDir over a workspace that lists arg.entries.
FindLatest ==
    /\ out.kind = "none"
    /\ out' = findLatestResultsDir(arg.listOK, arg.entries)
    /\ arg' = arg
    /\ FnFrame

SpecLatest == LatestInit /\ [][FindLatest]_vars

\* The directories of the listing that can be selected: named with the
\* prefix, not empty, with a suffix that parses as a timestamp.
Eligible ==
    { i \in DOMAIN arg.entries :
        /\ arg.entries[i].isDir /\ arg.entries[i].prefixed
        /\ ~arg.entries[i].empty /\ arg.entries[i].suffix.num }

\* C9: findLatestResultsDir returns the first listed of the eligible
\* directories with the greatest timestamp, never an empty directory, and
\* fails exactly when no directory is eligible.
C9_LatestResultsDir ==
    (out.kind # "none" /\ arg.listOK) =>
      IF Eligible = {}
        THEN out.kind = "err"
        ELSE /\ out.kind = "ok"
             /\ out.dir \in Eligible
             /\ \A j \in Eligible :
                  \/ arg.entries[j].suffix.val < arg.entries[out.dir].suffix.val
                  \/ arg.entries[j].suffix.val = arg.entries[out.dir].suffix.val
                       /\ out.dir <= j

\* With every eligible timestamp positive the selection is as C9 says.
LatestOfPositiveTimestamps ==
    (\A i \in Eligible : arg.entries[i].suffix.val > 0) => C9_LatestResultsDir

\* C35: whenever the workspace lists at least one eligible directory,
\* findLatestResultsDir returns a directory, whatever the timestamps,
\* zero included.
C35_EligibleIsSelected ==
    (out.kind # "none" /\ arg.listOK /\ Eligible # {}) => out.kind = "ok"

\* Most documents of a metadata stream, and most entries of one document.
MaxDocs == 2
MaxPerDoc == 2

\* The repositoryDigestMirrors entries a document may hold.
MirrorEntries ==
    { [source |-> "s1", mirrors |-> <<"m1">>],
      [source |-> "s2", mirrors |-> <<"m1", "m2">>],
      [source |-> "s2", mirrors |-> <<>>] }

\* The text is a sequence of lines.
HdrLine     == [k |-> "- mirrors:", v |-> ""]
ItemLine(m) == [k |-> "  - ", v |-> m]
SrcLine(x)  == [k |-> "  source: ", v |-> x]

\* strings.Join(mirrors, "\n  - ") after "  - ": one line per mirror, and
\* the one line "  - " for no mirror at all.
joinMirrors(mirrors) ==
    IF mirrors = <<>> THEN <<ItemLine("")>>
    ELSE [j \in 1..Len(mirrors) |-> ItemLine(mirrors[j])]

\* The block Sprintf makes of one entry.
mirrorBlock(rdm) == <<HdrLine>> \o joinMirrors(rdm.mirrors) \o <<SrcLine(rdm.source)>>

\* The blocks of the entries of one document, in order.
RECURSIVE blocksOfDoc(_, _)
blocksOfDoc(rdms, i) ==
    IF i > Len(rdms) THEN <<>>
    ELSE mirrorBlock(rdms[i]) \o blocksOfDoc(rdms, i + 1)

\* A document of the stream: one that decodes, with its entries, or one
\* that does not.
Document(rdms) == [ok |-> TRUE, rdms |-> rdms]
Malformed == [ok |-> FALSE, rdms |-> <<>>]
ICSPDocs == { Document(r) : r \in SeqUpTo(MirrorEntries, MaxPerDoc) } \union {Malformed}

\* What precedes the decoding: the workspace lookup, the lookup of the
\* latest run directory and the reading of the metadata file.
Lookups == {"ok", "noWorkspace", "noResults", "unreadable"}

\* The decode loop: the blocks of every document, in stream order, up to
\* the end of the stream or the first document that does not decode.
RECURSIVE blocksOfStream(_, _, _)
blocksOfStream(docs, d, text) ==
    IF d > Len(docs) THEN [kind |-> "eof", text |-> text]
    ELSE IF ~docs[d].ok THEN [kind |-> "err", text |-> <<>>]
    ELSE blocksOfStream(docs, d + 1, text \o blocksOfDoc(docs[d].rdms, 1))

\* findAndParseICSP: the text of all blocks, or an error when a lookup
\* fails, a document does not decode or there is no block.
findAndParseICSP(lookup, docs) ==
    LET r == blocksOfStream(docs, 1, <<>>) IN
    IF lookup # "ok" THEN [kind |-> "err", text |-> <<>>]
    ELSE IF r.kind = "err" THEN [kind |-> "err", text |-> <<>>]
    ELSE IF Len(r.text) = 0 THEN [kind |-> "err", text |-> <<>>]
    ELSE [kind |-> "ok", text |-> r.text]

ICSPInit ==
    /\ arg \in [lookup : Lookups, docs : SeqUpTo(ICSPDocs, MaxDocs)]
    /\ out = NotApplied
    /\ IsoOff /\ CacheOff

\* One run of findAndParseICSP.
ParseICSP ==
    /\ out.kind = "none"
    /\ out' = findAndParseICSP(arg.lookup, arg.docs)
    /\ arg' = arg
    /\ FnFrame

SpecICSP == ICSPInit /\ [][ParseICSP]_vars

\* The metadata file was read and every document of it decodes.
WellFormed == arg.lookup = "ok" /\ \A d \in DOMAIN arg.docs : arg.docs[d].ok

\* The entries of all documents, in document order, then entry order.
RECURSIVE FlatEntries(_)
FlatEntries(docs) ==
    IF docs = <<>> THEN <<>> ELSE Head(docs).rdms \o FlatEntries(Tail(docs))

\* The positions of the lines that open a block.
BlockStarts(text) == { i \in DOMAIN text : text[i].k = "- mirrors:" }

\* The lines of the j-th block: from its opening line up to the next one.
BlockLines(text, j) ==
    LET from == Nth(BlockStarts(text), j)
        upto == IF j < Cardinality(BlockStarts(text))
                  THEN Nth(BlockStarts(text), j + 1) - 1 ELSE Len(text)
    IN  SubSeq(text, from, upto)

\* The block that lists exactly the given mirrors and then the source.
ListingOf(rdm) ==
    <<HdrLine>> \o [j \in 1..Len(rdm.mirrors) |-> ItemLine(rdm.mirrors[j])]
                \o <<SrcLine(rdm.source)>>

\* C10: the text holds exactly one block per entry of the stream, in
\* document order then entry order, duplicates kept, and the j-th block
\* lists the mirrors of the j-th entry and then its source.
C10_MirrorBlocks ==
    (out.kind # "none" /\ WellFormed) =>
      LET flat == FlatEntries(arg.docs) IN
      /\ Cardinality(BlockStarts(out.text)) = Len(flat)
      /\ \A j \in 1..Len(flat) : BlockLines(out.text, j) = ListingOf(flat[j])

\* One block per entry, in order, each ending with the entry's source; an
\* entry with mirrors is listed exactly.
MirrorBlocksOfNonEmpty ==
    (out.kind # "none" /\ WellFormed) =>
      LET flat == FlatEntries(arg.docs) IN
      /\ Cardinality(BlockStarts(out.text)) = Len(flat)
      /\ \A j \in 1..Len(flat) :
           LET b == BlockLines(out.text, j) IN
           /\ b[Len(b)] = SrcLine(flat[j].source)
           /\ flat[j].mirrors # <<>> => b = ListingOf(flat[j])

(***************************************************************************)
(*        pkg/iso/generator.go: the merged credential document             *)
(***************************************************************************)

\* registryURL: the internal registry host and the fixed port.
registryURL == "registry.<cluster>.<domain>:8443"

\* The entry synthesized for the internal registry.
synthesized == "auth+email"

\* The registries a raw credential may name and the entries it may hold
\* for them.
AuthKeys == {"quay.io", "registry.redhat.io", registryURL}
AuthEntries == {"t1", "t2", synthesized}

\* The raw credential objects: `auths` is a map, is missing or is not a
\* map; `top` holds the other top-level fields.
AuthMaps == UNION { [K -> AuthEntries] : K \in SUBSET AuthKeys }
RawObjects ==
    [authsKind : {"map"}, auths : AuthMaps, top : {<<>>, <<"v1">>}]
      \cup [authsKind : {"missing", "string"}, auths : {<<>>}, top : {<<>>, <<"v1">>}]

\* The assignment that leaves an entry already under the key alone.
setRegistryAuthIfMissing(auths) ==
    [k \in DOMAIN auths \cup {registryURL} |->
        IF k \in DOMAIN auths THEN auths[k] ELSE synthesized]

\* auths[registryURL] = {auth, email}: a Go map assignment.
setRegistryAuth(auths) ==
    [k \in DOMAIN auths \cup {registryURL} |->
        IF k = registryURL THEN synthesized ELSE auths[k]]

\* createMergedAuthConfig from the parsed raw object to the object that is
\* serialized: an error without an `auths` map, else the raw object with
\* the entry set in its `auths`.
mergedAuthObject(raw) ==
    IF raw.authsKind # "map" THEN [kind |-> "err", doc |-> raw]
    ELSE [kind |-> "ok", doc |-> [raw EXCEPT !.auths = setRegistryAuth(@)]]

MergeInit ==
    /\ arg \in RawObjects
    /\ out = NotApplied
    /\ IsoOff /\ CacheOff

\* One merge of the raw credential object arg.
MergeAuth ==
    /\ out.kind = "none"
    /\ out' = mergedAuthObject(arg)
    /\ arg' = arg
    /\ FnFrame

SpecMerge == MergeInit /\ [][MergeAuth]_vars

\* C14 as stated: the merged `auths` is the raw one plus the synthesized
\* entry under the registry key, every raw entry is in it unmodified, also
\* one under the registry key, and the other fields are unchanged.
C14_AsStated ==
    (out.kind # "none" /\ arg.authsKind = "map") =>
      /\ out.kind = "ok"
      /\ DOMAIN out.doc.auths = DOMAIN arg.auths \cup {registryURL}
      /\ out.doc.auths[registryURL] = synthesized
      /\ \A k \in DOMAIN arg.auths : out.doc.auths[k] = arg.auths[k]
      /\ out.doc.top = arg.top

\* C14 amended: as stated, but the raw entries kept unmodified are those
\* under the other keys; an entry under the registry key is replaced.
C14_MergedContent ==
    (out.kind # "none" /\ arg.authsKind = "map") =>
      /\ out.kind = "ok"
      /\ DOMAIN out.doc.auths = DOMAIN arg.auths \cup {registryURL}
      /\ out.doc.auths[registryURL] = synthesized
      /\ \A k \in DOMAIN arg.auths \ {registryURL} : out.doc.auths[k] = arg.auths[k]
      /\ out.doc.top = arg.top

\* C14 witness: a raw credential with entries for another registry and for
\* the internal one has been merged.
C14_Witness ==
    /\ out.kind = "ok" /\ arg.authsKind = "map"
    /\ DOMAIN arg.auths = {"quay.io", registryURL}
    /\ arg.auths[registryURL] = "t1" /\ arg.top = <<"v1">>

(***************************************************************************)
(*          pkg/iso: getPullSecret on its own                               *)
(***************************************************************************)

SecretInit ==
    /\ arg \in [f : [pullSecret : {Absent, "json\n", "text\n", "denied"},
                     merged : {Absent, "merged", "merged\n", Truncated}],
                io : {"ok", "fail", "partial"}, readOK : BOOLEAN]
    /\ out = NotApplied
    /\ IsoOff /\ CacheOff

\* One call of getPullSecret by generateInstallConfig.
ResolveSecret ==
    /\ out.kind = "none"
    /\ out' = [kind |-> "done", res |-> getPullSecret(arg.f, arg.io, arg.readOK)]
    /\ arg' = arg
    /\ FnFrame

SpecSecret == SecretInit /\ [][ResolveSecret]_vars

\* There was no merged file and the merge went through.
MergeSucceeded ==
    /\ out.kind = "done" /\ arg.f.merged = Absent
    /\ ~createMergedAuthConfig(arg.f, arg.io).err

\* C30: when there is no merged file and the merge succeeds, getPullSecret
\* merges exactly once, calls itself at most once more, and returns,
\* without error, the trimmed content of the merged file just written.
C30_SynthesisThenContent ==
    MergeSucceeded =>
       /\ out.res.merges = 1 /\ out.res.calls <= 2
       /\ ~out.res.err
       /\ out.res.secret = TrimSpace(createMergedAuthConfig(arg.f, arg.io).merged)

\* The part of C30 that does not depend on reading the merged file back:
\* one merge, at most one re-entry, and the merged content or an error.
C30_OneSynthesis ==
    MergeSucceeded =>
       /\ out.res.merges = 1 /\ out.res.calls = 2
       /\ out.res.merged = "merged"
       /\ IF arg.readOK THEN ~out.res.err /\ out.res.secret = "merged"
                        ELSE out.res.err /\ out.res.secret = ""

(***************************************************************************)
(*          pkg/iso: the data generateInstallConfig hands to the template   *)
(***************************************************************************)

\* getSSHKey: the trimmed public key, or "" with an error when the home
\* directory is unknown or the key file cannot be read.
getSSHKey(ssh) ==
    IF ssh \in {"nohome", Absent} THEN [err |-> TRUE, val |-> ""]
    ELSE [err |-> FALSE, val |-> TrimSpace(ssh)]

\* getAdditionalTrustBundle with the generic certificate path tried first.
getAdditionalTrustBundleGenericFirst(atIP, atRoot) ==
    IF atRoot # Absent THEN [err |-> FALSE, val |-> atRoot]
    ELSE IF atIP # Absent THEN [err |-> FALSE, val |-> atIP]
    ELSE [err |-> TRUE, val |-> ""]

\* getAdditionalTrustBundle: the content of the first of the two expected
\* certificate paths that can be read, the one below the registry address
\* first; "" with an error when neither can.
getAdditionalTrustBundle(atIP, atRoot) ==
    IF atIP # Absent THEN [err |-> FALSE, val |-> atIP]
    ELSE IF atRoot # Absent THEN [err |-> FALSE, val |-> atRoot]
    ELSE [err |-> TRUE, val |-> ""]

\* The metadata streams the optional-input cases need: no document, a
\* document with no entry, a document that does not decode, one entry.
SomeStreams ==
    { <<>>, <<Document(<<>>)>>, <<Malformed>>,
      <<Document(<<[source |-> "s1", mirrors |-> <<"m1">>]>>)>> }

\* The outcomes of getPullSecret as generateInstallConfig sees them.
PullSecrets == { [err |-> TRUE, secret |-> ""], [err |-> FALSE, secret |-> "merged"] }

\* generateInstallConfig with an error of findAndParseICSP returned to the
\* caller.
generateInstallConfigDataStrict(a) ==
    LET sshKey == getSSHKey(a.ssh)
        trustBundle == getAdditionalTrustBundle(a.caAtIP, a.caAtRoot)
        ics == findAndParseICSP(a.lookup, a.docs)
    IN  IF a.pull.err \/ ics.kind = "err" THEN [kind |-> "err"]
        ELSE IF a.render # "ok" THEN [kind |-> "err"]
        ELSE [kind |-> "ok",
              PullSecret |-> a.pull.secret,
              SSHKeyPub |-> sshKey.val,
              AdditionalTrustBundle |-> trustBundle.val,
              ImageContentSources |-> ics.text,
              warned |-> (IF trustBundle.err THEN {"ca"} ELSE {})
                           \cup (IF ics.kind = "err" THEN {"icsp"} ELSE {})]

\* generateInstallConfig up to the rendering: an error of getPullSecret is
\* returned; the errors of getSSHKey, getAdditionalTrustBundle and
\* findAndParseICSP are dropped or only reported, and the value each
\* returned with its error goes into the data; warned are the inputs whose
\* error was printed; executeTemplate decides the result.
generateInstallConfigData(a) ==
    LET sshKey == getSSHKey(a.ssh)
        trustBundle == getAdditionalTrustBundle(a.caAtIP, a.caAtRoot)
        ics == findAndParseICSP(a.lookup, a.docs)
    IN  IF a.pull.err THEN [kind |-> "err"]
        ELSE IF a.render # "ok" THEN [kind |-> "err"]
        ELSE [kind |-> "ok",
              PullSecret |-> a.pull.secret,
              SSHKeyPub |-> sshKey.val,
              AdditionalTrustBundle |-> trustBundle.val,
              ImageContentSources |-> ics.text,
              warned |-> (IF trustBundle.err THEN {"ca"} ELSE {})
                           \cup (IF ics.kind = "err" THEN {"icsp"} ELSE {})]

InstallDataInit ==
    /\ arg \in [pull : PullSecrets, ssh : {"nohome", Absent, "key\n"},
                caAtIP : {Absent, "caIP\n"}, caAtRoot : {Absent, "caRoot\n"},
                lookup : Lookups, docs : SomeStreams,
                render : {"ok", "create", "exec"}]
    /\ out = NotApplied
    /\ IsoOff /\ CacheOff

\* One run of generateInstallConfig on the inputs.
BuildInstallData ==
    /\ out.kind = "none"
    /\ out' = generateInstallConfigData(arg)
    /\ arg' = arg
    /\ FnFrame

SpecInstallData == InstallDataInit /\ [][BuildInstallData]_vars

\* The optional inputs that are not there.
NoSSHKey == arg.ssh \in {"nohome", Absent}
NoTrustBundle == arg.caAtIP = Absent /\ arg.caAtRoot = Absent
NoMirrorMetadata ==
    \/ arg.lookup # "ok"
    \/ \A d \in DOMAIN arg.docs : arg.docs[d].ok /\ arg.docs[d].rdms = <<>>

\* C22: whatever the optional inputs are, generateInstallConfig succeeds when
\* the credential resolves and the document can be written, and an absent
\* SSH key, trust bundle or mirror metadata leaves its field of the data
\* empty.
C22_OptionalInputs ==
    (out.kind # "none" /\ ~arg.pull.err /\ arg.render = "ok")
      => /\ out.kind = "ok"
         /\ (NoSSHKey => out.SSHKeyPub = "")
         /\ (NoTrustBundle => out.AdditionalTrustBundle = "")
         /\ (NoMirrorMetadata => out.ImageContentSources = <<>>)

\* A document rendered with the credential alone: no key, no bundle, and a
\* metadata file whose only document has no entry.
C22_Witness ==
    /\ out.kind = "ok" /\ out.PullSecret = "merged"
    /\ NoSSHKey /\ NoTrustBundle
    /\ arg.lookup = "ok" /\ arg.docs = <<Document(<<>>)>>
    /\ out.ImageContentSources = <<>>

\* C32: the trust bundle is the content, unchanged, of the certificate file
\* below the registry address whenever that file can be read, of the
\* generic certificate file only when the first cannot be read, and there
\* is the not-found error, with an empty bundle, only when neither can.
C32_TrustBundleOrder ==
    out.kind = "ok" =>
       /\ arg.caAtIP # Absent =>
            out.AdditionalTrustBundle = arg.caAtIP /\ "ca" \notin out.warned
       /\ (arg.caAtIP = Absent /\ arg.caAtRoot # Absent) =>
            out.AdditionalTrustBundle = arg.caAtRoot /\ "ca" \notin out.warned
       /\ (arg.caAtIP = Absent /\ arg.caAtRoot = Absent) =>
            out.AdditionalTrustBundle = "" /\ "ca" \in out.warned

\* Both certificate files can be read; the bundle is that of the file below
\* the registry address, with its final line break.
C32_Witness ==
    /\ out.kind = "ok" /\ arg.caAtIP = "caIP\n" /\ arg.caAtRoot = "caRoot\n"
    /\ out.AdditionalTrustBundle = "caIP\n"

(***************************************************************************)
(*          pkg/iso: the data generateAgentConfig hands to the template     *)
(***************************************************************************)

\* Most hosts of one group of the configuration.
MaxHosts == 2

defaultInterface == "ens3"

\* The hosts a configuration can declare, and the addresses of its bastion
\* and registry nodes.
ConfigHosts ==
    { [Name |-> "n1", MAC |-> "mac1", IP |-> "ip1"],
      [Name |-> "n2", MAC |-> "mac2", IP |-> "ip2"] }
NodeIPs == {"ip8", "ip9"}

HostConfig(h, role) ==
    [Hostname |-> h.Name, Role |-> role, MACAddress |-> h.MAC,
     IPAddress |-> h.IP, Interface |-> defaultInterface]

\* The two loops with the worker group appended first.
hostsWorkersFirst(cfg) ==
    [i \in 1..Len(cfg.Worker) |-> HostConfig(cfg.Worker[i], "worker")]
    \o [i \in 1..Len(cfg.ControlPlane) |-> HostConfig(cfg.ControlPlane[i], "master")]

\* The two loops of generateAgentConfig: the control-plane group appended
\* in order, then the worker group in order.
hosts(cfg) ==
    [i \in 1..Len(cfg.ControlPlane) |-> HostConfig(cfg.ControlPlane[i], "master")]
    \o [i \in 1..Len(cfg.Worker) |-> HostConfig(cfg.Worker[i], "worker")]

\* The name-server list made of the address of the registry node.
DNSServersOfRegistry(cfg) == <<cfg.RegistryIP>>

\* The name-server list of AgentConfigData: the address of the bastion node.
DNSServers(cfg) == <<cfg.BastionIP>>

\* generateAgentConfig up to the rendering.  ControlPlane[0] of an empty
\* control-plane group is a run-time panic.
generateAgentConfigData(cfg) ==
    IF Len(cfg.ControlPlane) = 0 THEN [kind |-> "panic"]
    ELSE [kind |-> "ok",
          RendezvousIP |-> cfg.ControlPlane[1].IP,
          Hosts |-> hosts(cfg),
          Port0 |-> defaultInterface,
          DNSServers |-> DNSServers(cfg)]

AgentDataInit ==
    /\ arg \in [ControlPlane : SeqUpTo(ConfigHosts, MaxHosts),
                Worker : SeqUpTo(ConfigHosts, MaxHosts),
                BastionIP : NodeIPs, RegistryIP : NodeIPs]
    /\ out = NotApplied
    /\ IsoOff /\ CacheOff

\* One run of generateAgentConfig on the configuration.
BuildAgentData ==
    /\ out.kind = "none"
    /\ out' = generateAgentConfigData(arg)
    /\ arg' = arg
    /\ FnFrame

SpecAgentData == AgentDataInit /\ [][BuildAgentData]_vars

\* C23: the host list has one entry per configured host; the control-plane
\* hosts come first, with role master, in declaration order, then the
\* workers, with role worker, in declaration order; every entry has the one
\* fixed interface name.
C23_HostOrdering ==
    out.kind = "ok" =>
      LET n == Len(arg.ControlPlane) IN
      /\ Len(out.Hosts) = n + Len(arg.Worker)
      /\ \A i \in 1..n :
           /\ out.Hosts[i].Hostname = arg.ControlPlane[i].Name
           /\ out.Hosts[i].MACAddress = arg.ControlPlane[i].MAC
           /\ out.Hosts[i].IPAddress = arg.ControlPlane[i].IP
           /\ out.Hosts[i].Role = "master"
      /\ \A j \in 1..Len(arg.Worker) :
           /\ out.Hosts[n + j].Hostname = arg.Worker[j].Name
           /\ out.Hosts[n + j].MACAddress = arg.Worker[j].MAC
           /\ out.Hosts[n + j].IPAddress = arg.Worker[j].IP
           /\ out.Hosts[n + j].Role = "worker"
      /\ \A i \in DOMAIN out.Hosts : out.Hosts[i].Interface = "ens3"

\* Two control-plane hosts and two workers, the two groups declaring the
\* same hosts in opposite orders.
C23_Witness ==
    /\ out.kind = "ok"
    /\ Len(arg.ControlPlane) = 2 /\ Len(arg.Worker) = 2
    /\ arg.ControlPlane[1].Name = "n2" /\ arg.ControlPlane[2].Name = "n1"
    /\ arg.Worker[1].Name = "n1" /\ arg.Worker[2].Name = "n2"
    /\ out.Hosts[1].Hostname = "n2" /\ out.Hosts[4].Hostname = "n2"

\* C24 as stated: the name-server list has exactly one element, the address
\* of the registry node.
C24_AsStated ==
    out.kind = "ok" => out.DNSServers = <<arg.RegistryIP>>

\* C24: the name-server list has exactly one element, the address of the
\* bastion node.
C24_NameServer ==
    out.kind = "ok" => out.DNSServers = <<arg.BastionIP>>

\* A configuration whose bastion and registry nodes have different
\* addresses.
C24_Witness ==
    /\ out.kind = "ok" /\ arg.BastionIP = "ip8" /\ arg.RegistryIP = "ip9"
    /\ out.DNSServers = <<"ip8">>

(***************************************************************************)
(*          pkg/save: the package selections of generateImageSetConfig      *)
(***************************************************************************)

\* Most operator identifiers of a configuration.
MaxIds == 2

\* The operators of the cache, with and without a default channel, and the
\* identifiers a configuration can list; <<"x-">> resolves to nothing.
ChannelOps ==
    { [Name |-> sCLO, DisplayName |-> sCLO, DefaultChannel |-> "stable"],
      [Name |-> sCLO, DisplayName |-> sCLO, DefaultChannel |-> ""],
      [Name |-> sLSO, DisplayName |-> sLSO, DefaultChannel |-> "fast"] }
ConfigIds == { sCLO, sLSO, <<"logging">>, <<"x-">> }

\* getOperatorDefaultChannel as generateImageSetConfig calls it: an error
\* when operators.json can be neither read nor generated, else the
\* resolution against its operators.
resolveFromCache(opName, cache) ==
    IF ~cache.readable THEN Failed("cache", <<>>)
    ELSE getOperatorDefaultChannel(opName, cache.ops)

\* The loop with an identifier that does not resolve left out.
operatorPackagesResolvedOnly(ids, cache) ==
    LET all == [i \in DOMAIN ids |->
                  LET opInfo == resolveFromCache(ids[i], cache) IN
                  [Name |-> ids[i], Channel |-> opInfo.rec.DefaultChannel,
                   ok |-> opInfo.kind = "ok"]]
        kept == SelectSeq(all, LAMBDA p : p.ok)
    IN  [i \in DOMAIN kept |-> [Name |-> kept[i].Name, Channel |-> kept[i].Channel]]

\* The loop over the configured identifiers: one OperatorPackage each, with
\* the default channel of the record the identifier resolves to, or with
\* the name alone when the resolution fails.
operatorPackages(ids, cache) ==
    [i \in DOMAIN ids |->
       LET opInfo == resolveFromCache(ids[i], cache) IN
       IF opInfo.kind = "ok"
         THEN [Name |-> ids[i], Channel |-> opInfo.rec.DefaultChannel]
         ELSE [Name |-> ids[i], Channel |-> ""]]

\* The packages block of the template: one item per OperatorPackage, its
\* name, and under it the channel if .Channel is not empty.
packagesBlock(pkgs) ==
    [i \in DOMAIN pkgs |->
       [name |-> pkgs[i].Name,
        channels |-> IF pkgs[i].Channel # "" THEN <<pkgs[i].Channel>> ELSE <<>>]]

\* generateImageSetConfig: the operators are resolved only if they are to
\* be included and there are some; the template writes the operators block
\* only if they are to be included; os.Create of the file may fail.
generateImageSetConfigData(a) ==
    LET pkgs == IF a.IncludeOperators /\ Len(a.Ops) > 0
                  THEN operatorPackages(a.Ops, a.cache) ELSE <<>>
    IN  IF ~a.created THEN [kind |-> "err"]
        ELSE [kind |-> "ok", operators |-> a.IncludeOperators,
              packages |-> IF a.IncludeOperators THEN packagesBlock(pkgs) ELSE <<>>]

ImageSetInit ==
    /\ arg \in [IncludeOperators : BOOLEAN, Ops : SeqUpTo(ConfigIds, MaxIds),
                cache : [readable : BOOLEAN, ops : SeqUpTo(ChannelOps, MaxOps)],
                created : BOOLEAN]
    /\ out = NotApplied
    /\ IsoOff /\ CacheOff

\* One run of generateImageSetConfig.
BuildImageSet ==
    /\ out.kind = "none"
    /\ out' = generateImageSetConfigData(arg)
    /\ arg' = arg
    /\ FnFrame

SpecImageSet == ImageSetInit /\ [][BuildImageSet]_vars

\* The resolution of the i-th configured identifier.
ResolutionOf(i) == resolveFromCache(arg.Ops[i], arg.cache)

\* C25 as stated: with operators included there is one selection per
\* configured identifier, in configuration order, and a selection carries a
\* channel, the default channel of the matched record, exactly if the
\* identifier resolved.
C25_AsStated ==
    (out.kind = "ok" /\ arg.IncludeOperators) =>
       /\ Len(out.packages) = Len(arg.Ops)
       /\ \A i \in DOMAIN arg.Ops :
            /\ out.packages[i].name = arg.Ops[i]
            /\ (out.packages[i].channels # <<>>) <=> (ResolutionOf(i).kind = "ok")
            /\ ResolutionOf(i).kind = "ok"
                 => out.packages[i].channels = <<ResolutionOf(i).rec.DefaultChannel>>

\* C25: with operators included there is one selection per configured
\* identifier, in configuration order; a selection carries a channel, the
\* default channel of the matched record, exactly if the identifier resolved
\* and that default channel is not empty; an identifier that does not
\* resolve is emitted without channel and does not end the generation.
C25_PackageSelections ==
    (out.kind = "ok" /\ arg.IncludeOperators) =>
       /\ Len(out.packages) = Len(arg.Ops)
       /\ \A i \in DOMAIN arg.Ops :
            /\ out.packages[i].name = arg.Ops[i]
            /\ (out.packages[i].channels # <<>>)
                 <=> (/\ ResolutionOf(i).kind = "ok"
                      /\ ResolutionOf(i).rec.DefaultChannel # "")
            /\ out.packages[i].channels # <<>>
                 => out.packages[i].channels = <<ResolutionOf(i).rec.DefaultChannel>>

\* An identifier that resolves to nothing, emitted without channel before
\* one that resolves and is emitted with its channel.
C25_Witness ==
    /\ out.kind = "ok" /\ arg.IncludeOperators
    /\ arg.Ops = << <<"x-">>, sLSO >>
    /\ ResolutionOf(1).kind # "ok" /\ ResolutionOf(2).kind = "ok"
    /\ out.packages = << [name |-> <<"x-">>, channels |-> <<>>],
                         [name |-> sLSO, channels |-> <<"fast">>] >>

\* C36: a configured identifier that resolves through the alias table or
\* by containment, no operator matching it exactly, is emitted under the
\* name of the matched record, with the default channel of that record.
C36_NamesResolvedOperator ==
    (out.kind = "ok" /\ arg.IncludeOperators) =>
       \A i \in DOMAIN arg.Ops :
          (/\ ResolutionOf(i).kind = "ok"
           /\ exactMatches(arg.Ops[i], arg.cache.ops) = <<>>)
            => /\ out.packages[i].name = ResolutionOf(i).rec.Name
               /\ out.packages[i].channels \in
                    {<<ResolutionOf(i).rec.DefaultChannel>>} \cup
                    (IF ResolutionOf(i).rec.DefaultChannel = "" THEN {<<>>} ELSE {})

(***************************************************************************)
(*          pkg/catalognew: convertToOperatorInfo                           *)
(***************************************************************************)

\* Most image references of a fetched result.
MaxImages == 2

\* An image reference: protocol prefix, the path parts before the last, the
\* last part as a sequence of syllables, and the tag or digest.
Ref(proto, dirs, last, tag) == [proto |-> proto, dirs |-> dirs, last |-> last, tag |-> tag]
NoRef == Ref("", <<>>, <<>>, "")

\* strings.TrimSuffix(bundlePart, "-bundle").
TrimBundleSuffix(last) ==
    IF Len(last) > 0 /\ last[Len(last)] = "-bundle"
      THEN SubSeq(last, 1, Len(last) - 1) ELSE last

\* extractOperatorNameFromBundle: the prefix is dropped; with fewer than
\* two path parts the result is ""; else the last part without tag, digest
\* and "-bundle" suffix.
extractOperatorNameFromBundle(ref) ==
    IF Len(ref.dirs) + 1 >= 2 THEN TrimBundleSuffix(ref.last) ELSE <<>>

\* extractCatalogName: the last path part without prefix, tag and digest.
extractCatalogName(ref) == ref.last

OperatorInfo(name, display, channel, text, ref) ==
    [Name |-> name, DisplayName |-> display, DefaultChannel |-> channel,
     Description |-> [text |-> text, ref |-> ref]]

bundleEntry(ref) ==
    LET n == extractOperatorNameFromBundle(ref) IN
    OperatorInfo(n, n, "stable", "Operator bundle: ", ref)
catalogEntry(ref) ==
    LET n == extractCatalogName(ref) IN
    OperatorInfo(n \o <<"-catalog">>, n \o <<" Catalog">>, "stable", "Catalog image: ", ref)

\* Way 1: the packages of the catalogs that have a declarative
\* configuration, the catalogs in the order the map iteration visits them.
RECURSIVE fromFBC(_, _, _)
fromFBC(fbc, order, k) ==
    IF k > Len(order) THEN <<>>
    ELSE LET c == fbc[order[k]] IN
         (IF c.nil THEN <<>>
          ELSE [i \in DOMAIN c.Packages |->
                  OperatorInfo(c.Packages[i].Name, c.Packages[i].Name,
                               c.Packages[i].DefaultChannel, c.Packages[i].Description, NoRef)])
         \o fromFBC(fbc, order, k + 1)

\* Way 2: operatorMap after the loop over AllImages; a later image with the
\* same key replaces the earlier entry; a bundle without name is left out.
RECURSIVE operatorMap(_, _)
operatorMap(images, n) ==
    IF n = 0 THEN {}
    ELSE LET image == images[n]
             e == IF image.Type = "bundle" THEN bundleEntry(image.Origin)
                  ELSE catalogEntry(image.Origin)
             add == \/ image.Type = "bundle" /\ e.Name # <<>>
                    \/ image.Type = "catalog"
             rest == operatorMap(images, n - 1)
         IN  IF add THEN {o \in rest : o.Name # e.Name} \cup {e} ELSE rest

\* The conversion with the image references read whatever way 1 yielded.
convertToOperatorInfoMerging(schema, catalogImage, order, mapOrder) ==
    LET one == fromFBC(schema.CatalogToFBCMap, order, 1)
        m   == operatorMap(schema.AllImages, Len(schema.AllImages))
        two == one \o [i \in 1..Cardinality(m) |-> mapOrder[i]]
    IN  IF Len(two) = 0 THEN <<catalogEntry(catalogImage)>> ELSE two

\* convertToOperatorInfo: way 1; way 2 if way 1 left the list empty, the
\* entries of operatorMap in the order the map iteration visits them; way 3,
\* the entry of the catalog itself, if the list is still empty.
convertToOperatorInfo(schema, catalogImage, order, mapOrder) ==
    LET one == fromFBC(schema.CatalogToFBCMap, order, 1)
        m   == operatorMap(schema.AllImages, Len(schema.AllImages))
        two == IF Len(one) = 0 THEN [i \in 1..Cardinality(m) |-> mapOrder[i]] ELSE one
    IN  IF Len(two) = 0 THEN <<catalogEntry(catalogImage)>> ELSE two

\* The orders in which a map iteration can visit the elements of S.
Orders(S) ==
    { q \in [1..Cardinality(S) -> S] : \A i, j \in DOMAIN q : i # j => q[i] # q[j] }

ConvertInit ==
    /\ arg \in
         [CatalogToFBCMap :
            UNION { [refs ->
                       { [nil |-> TRUE, Packages |-> <<>>],
                         [nil |-> FALSE, Packages |-> <<>>],
                         [nil |-> FALSE, Packages |->
                            << [Name |-> <<"op1">>, DefaultChannel |-> "fast", Description |-> "d1"] >>],
                         [nil |-> FALSE, Packages |->
                            << [Name |-> <<"op2">>, DefaultChannel |-> "", Description |-> ""],
                               [Name |-> <<"op1">>, DefaultChannel |-> "fast", Description |-> "d1"] >>] }]
                    : refs \in SUBSET {"c1", "c2"} },
          AllImages :
            SeqUpTo([Type : {"bundle", "catalog", "other"},
                     Origin : { Ref("docker://", <<"reg">>, <<"op1", "-bundle">>, ":v1"),
                                Ref("", <<"reg">>, <<"op1">>, "@sha"),
                                Ref("", <<>>, <<"op1", "-bundle">>, ""),
                                Ref("oci://", <<"reg">>, <<"idx">>, ":v1") }], MaxImages),
          CatalogImage : { Ref("", <<"reg">>, <<"idx">>, ":v1") }]
    /\ out = NotApplied
    /\ IsoOff /\ CacheOff

\* One run of convertToOperatorInfo, the two map iterations in some order.
Convert ==
    /\ out.kind = "none"
    /\ \E order \in Orders(DOMAIN arg.CatalogToFBCMap),
          mapOrder \in Orders(operatorMap(arg.AllImages, Len(arg.AllImages))) :
         out' = [kind |-> "ok",
                 ops |-> convertToOperatorInfo(arg, arg.CatalogImage, order, mapOrder)]
    /\ arg' = arg
    /\ FnFrame

SpecConvert == ConvertInit /\ [][Convert]_vars

\* The packages of the structured metadata, and the image references that
\* yield an entry.
MetadataPackages ==
    { <<c, i>> \in (DOMAIN arg.CatalogToFBCMap) \X (1..2) :
        /\ ~arg.CatalogToFBCMap[c].nil
        /\ i <= Len(arg.CatalogToFBCMap[c].Packages) }
YieldingImages ==
    { i \in DOMAIN arg.AllImages :
        \/ arg.AllImages[i].Type = "catalog"
        \/ /\ arg.AllImages[i].Type = "bundle"
           /\ Len(arg.AllImages[i].Origin.dirs) >= 1
           /\ arg.AllImages[i].Origin.last # <<"-bundle">> }

KeyOf(i) ==
    IF arg.AllImages[i].Type = "bundle"
      THEN extractOperatorNameFromBundle(arg.AllImages[i].Origin)
      ELSE extractCatalogName(arg.AllImages[i].Origin) \o <<"-catalog">>

\* C26: the records come from one tier only, the first that yields an
\* entry: the packages of the structured metadata and nothing else if there
\* is any; else entries derived from image references and nothing else if
\* some reference yields one; else the single placeholder of the catalog;
\* and the result is never empty.
C26_ThreeTiers ==
    out.kind = "ok" =>
      /\ Len(out.ops) > 0
      /\ MetadataPackages # {} =>
           /\ Len(out.ops) = Cardinality(MetadataPackages)
           /\ \A k \in DOMAIN out.ops :
                /\ out.ops[k].Description.ref = NoRef
                /\ \E p \in MetadataPackages :
                     out.ops[k].Name = arg.CatalogToFBCMap[p[1]].Packages[p[2]].Name
      /\ (MetadataPackages = {} /\ YieldingImages # {}) =>
           /\ \A k \in DOMAIN out.ops :
                \E i \in YieldingImages : out.ops[k].Description.ref = arg.AllImages[i].Origin
           /\ { out.ops[k].Name : k \in DOMAIN out.ops } = { KeyOf(i) : i \in YieldingImages }
           /\ Len(out.ops) = Cardinality({ KeyOf(i) : i \in YieldingImages })
      /\ (MetadataPackages = {} /\ YieldingImages = {}) =>
           /\ Len(out.ops) = 1
           /\ out.ops[1].Name = <<"idx", "-catalog">>
           /\ out.ops[1].Description.ref = arg.CatalogImage

\* Structured metadata with a package, together with an image reference
\* that would yield an entry: only the package is returned.
C26_Witness ==
    /\ out.kind = "ok" /\ MetadataPackages # {} /\ YieldingImages # {}
    /\ Len(out.ops) = 1 /\ out.ops[1].Name = <<"op1">>
    /\ out.ops[1].Description.text = "d1"

(***************************************************************************)
(*     pkg/catalognew: two concurrent callers of GetAllOperators            *)
(***************************************************************************)

\* In this specification cacheFile and tmpFile are the inode (0: none) at
\* the cache path and at the path CacheFile + ".tmp", which both callers
\* share; cmem holds the content of each inode and, per caller, the
\* records fetched, the inode of the open file and the write offset; cpc
\* and cret are per caller.  Inode 3 is an expired cache file.
Callers == {1, 2}

\* The content of a file after a write of piece d at position k; a write
\* past the end leaves a hole before it.
WriteAt(b, k, d) ==
    [i \in 1..(IF Len(b) > k THEN Len(b) ELSE k) |->
       IF i = k THEN d ELSE IF i <= Len(b) THEN b[i] ELSE "hole"]

\* The content decodes: it is all the pieces of one document.
Decodes(b) == Len(b) = DocLen /\ \E d \in Docs : \A i \in 1..DocLen : b[i] = d

ConcurrentInit ==
    /\ cacheFile \in {0, 3}
    /\ tmpFile = 0
    /\ cmem = [ino |-> [i \in 1..3 |-> IF i = 3 THEN [k \in 1..DocLen |-> "A"] ELSE <<>>],
               fd  |-> [c \in Callers |-> 0],
               off |-> [c \in Callers |-> 0],
               ops |-> [c \in Callers |-> ""]]
    /\ cpc = [c \in Callers |-> "idle"]
    /\ cret = [c \in Callers |-> "none"]
    /\ now = 0
    /\ IsoOff /\ FnOff

\* GetAllOperators of caller c up to the write: a cache file written since
\* the start is valid and is read and decoded; else the catalog is fetched.
callGetAllOperators(c) ==
    /\ cpc[c] = "idle" /\ cret[c] = "none"
    /\ IF cacheFile \in Callers
         THEN /\ cret' = [cret EXCEPT ![c] = IF Decodes(cmem.ino[cacheFile])
                                               THEN "ok:cache" ELSE "err:decode"]
              /\ UNCHANGED <<cpc, cmem>>
         ELSE \E outcome \in {"fetcherr"} \cup Docs :
                IF outcome = "fetcherr"
                  THEN cret' = [cret EXCEPT ![c] = "err:fetch"] /\ UNCHANGED <<cpc, cmem>>
                  ELSE /\ cmem' = [cmem EXCEPT !.ops[c] = outcome]
                       /\ cpc' = [cpc EXCEPT ![c] = "create"]
                       /\ cret' = cret
    /\ UNCHANGED <<cacheFile, tmpFile, now>>
    /\ CacheFrame

\* writeOperatorsToCache of caller c, os.Create of the temporary path: a
\* new file, or the file that is there truncated.
callCreate(c) ==
    /\ cpc[c] = "create"
    /\ \E ok \in BOOLEAN :
         IF ok
           THEN LET i == IF tmpFile = 0 THEN c ELSE tmpFile IN
                /\ tmpFile' = i
                /\ cmem' = [cmem EXCEPT !.ino[i] = <<>>, !.fd[c] = i, !.off[c] = 0]
                /\ cpc' = [cpc EXCEPT ![c] = "encode"]
                /\ cret' = cret
           ELSE /\ cret' = [cret EXCEPT ![c] = "err:create"]
                /\ cpc' = [cpc EXCEPT ![c] = "idle"]
                /\ UNCHANGED <<tmpFile, cmem>>
    /\ UNCHANGED <<cacheFile, now>>
    /\ CacheFrame

\* writeOperatorsToCache of caller c, encoder.Encode: the next piece goes
\* to the open file at the caller's offset; on an error the file is closed
\* and the temporary path removed.
callEncode(c) ==
    /\ cpc[c] = "encode"
    /\ \E ok \in BOOLEAN :
         IF ok
           THEN /\ cmem' = [cmem EXCEPT
                              !.ino[cmem.fd[c]] = WriteAt(@, cmem.off[c] + 1, cmem.ops[c]),
                              !.off[c] = @ + 1]
                /\ cpc' = [cpc EXCEPT ![c] = IF cmem.off[c] + 1 = DocLen THEN "rename" ELSE "encode"]
                /\ UNCHANGED <<tmpFile, cret>>
           ELSE /\ tmpFile' = 0
                /\ cret' = [cret EXCEPT ![c] = "err:encode"]
                /\ cpc' = [cpc EXCEPT ![c] = "idle"]
                /\ cmem' = cmem
    /\ UNCHANGED <<cacheFile, now>>
    /\ CacheFrame

\* writeOperatorsToCache of caller c, os.Rename of the temporary path over
\* the cache path; it fails when the temporary path is gone; on an error
\* the temporary path is removed.
callRename(c) ==
    /\ cpc[c] = "rename"
    /\ \E ok \in BOOLEAN :
         IF ok /\ tmpFile # 0
           THEN /\ cacheFile' = tmpFile
                /\ cret' = [cret EXCEPT ![c] = "ok:fetch"]
           ELSE /\ cacheFile' = cacheFile
                /\ cret' = [cret EXCEPT ![c] = "err:rename"]
    /\ tmpFile' = 0
    /\ cpc' = [cpc EXCEPT ![c] = "idle"]
    /\ UNCHANGED <<cmem, now>>
    /\ CacheFrame

ConcurrentNext ==
    \E c \in Callers :
       \/ callGetAllOperators(c)
       \/ callCreate(c)
       \/ callEncode(c)
       \/ callRename(c)

SpecConcurrent == ConcurrentInit /\ [][ConcurrentNext]_vars

\* C27: with two callers that both miss and both write, the file at the
\* cache path, whenever there is one, holds all of one document, and no
\* reader fails to decode it.
C27_NoHalfWrittenCache ==
    /\ cacheFile # 0 => Decodes(cmem.ino[cacheFile])
    /\ \A c \in Callers : cret[c] # "err:decode"

(***************************************************************************)
(*     pkg/save: the record set getOperatorDefaultChannel resolves against  *)
(***************************************************************************)

\* In this specification cacheFile is operators.json of the cluster
\* directory, tmpFile holds the cache file of catalognew of each catalog
\* image, cmem is the catalog image of the configuration, and cret records
\* the record set the last resolution read.
CatalogImages == {"c1", "c2"}

NoOperatorsJson == [ex |-> FALSE, fetchedAt |-> 0, catalog |-> ""]

\* generateOperatorsCache for the configured catalog image at time t: the
\* records of GetAllOperators, from its cache file if that is valid and
\* else fetched and cached, saved with the catalog image to operators.json.
\* Result: error?, the cache files of catalognew and operators.json after.
generateOperatorsCache(image, caches, t, outcome) ==
    LET hit == isCacheValid(caches[image], t)
        fetchedAt == IF hit THEN caches[image].mtime ELSE t
        caches1 == IF hit THEN caches ELSE [caches EXCEPT ![image] = File("A", DocLen, t)]
    IN  IF outcome = "fetcherr"
          THEN [err |-> TRUE, caches |-> caches, json |-> NoOperatorsJson]
        ELSE IF outcome = "saveerr"
          THEN [err |-> TRUE, caches |-> caches1, json |-> NoOperatorsJson]
          ELSE [err |-> FALSE, caches |-> caches1,
                json |-> [ex |-> TRUE, fetchedAt |-> fetchedAt, catalog |-> image]]

OperatorsInit ==
    /\ cacheFile = NoOperatorsJson
    /\ tmpFile = [c \in CatalogImages |-> NoFile]
    /\ cmem \in CatalogImages
    /\ cret = [st |-> "none", fetchedAt |-> 0, catalog |-> "", at |-> 0, image |-> ""]
    /\ cpc = "idle"
    /\ now = 0
    /\ IsoOff /\ FnOff

\* getOperatorDefaultChannel up to the matching: operators.json is
\* generated only if os.Stat does not find it, then read and decoded; the
\* identifier is matched against the operators it holds.
readOperatorsJson ==
    /\ \E outcome \in {"ok", "fetcherr", "saveerr"}, readOK \in BOOLEAN :
         LET g == IF cacheFile.ex
                    THEN [err |-> FALSE, caches |-> tmpFile, json |-> cacheFile]
                    ELSE generateOperatorsCache(cmem, tmpFile, now, outcome)
         IN  /\ cacheFile.ex => outcome = "ok"
             /\ tmpFile' = g.caches
             /\ cacheFile' = IF g.err THEN cacheFile ELSE g.json
             /\ cret' = IF g.err \/ ~readOK
                          THEN [st |-> "err", fetchedAt |-> 0, catalog |-> "", at |-> now, image |-> cmem]
                          ELSE [st |-> "ok", fetchedAt |-> g.json.fetchedAt,
                                catalog |-> g.json.catalog, at |-> now, image |-> cmem]
    /\ UNCHANGED <<cpc, cmem, now>>
    /\ CacheFrame

\* The configuration is edited: another catalog image.
Reconfigure ==
    /\ cmem' \in CatalogImages \ {cmem}
    /\ UNCHANGED <<cacheFile, tmpFile, cpc, cret, now>>
    /\ CacheFrame

OperatorsNext == readOperatorsJson \/ Reconfigure \/ Tick

SpecOperators == OperatorsInit /\ [][OperatorsNext]_vars

\* C31: the records a resolution matches against were fetched less than 24
\* hours before the resolution and are those of the catalog image the
\* configuration names.
C31_RecordsInsideTTL ==
    cret.st = "ok" => /\ cret.at - cret.fetchedAt < 24
                      /\ cret.catalog = cret.image

(***************************************************************************)
(*          pkg/iso: the indent helper of the install-config template       *)
(***************************************************************************)

\* Longest text and widest indentation of the inputs.
MaxText == 4
MaxWidth == 2

\* strings.Split(text, "\n"): the text, a sequence of characters, cut at
\* every line break; cur is the line being read.
RECURSIVE Split(_, _, _)
Split(text, i, cur) ==
    IF i > Len(text) THEN <<cur>>
    ELSE IF text[i] = "\n" THEN <<cur>> \o Split(text, i + 1, <<>>)
    ELSE Split(text, i + 1, Append(cur, text[i]))

\* strings.Join(lines, "\n").
RECURSIVE Join(_, _)
Join(lines, i) ==
    IF i > Len(lines) THEN <<>>
    ELSE lines[i] \o (IF i < Len(lines) THEN <<"\n">> ELSE <<>>) \o Join(lines, i + 1)

\* The helper with the first line left as it is.
indentRest(spaces, text) ==
    LET lines == Split(text, 1, <<>>)
        indentStr == [k \in 1..spaces |-> " "]
    IN  IF text = <<>> THEN <<>>
        ELSE Join([i \in DOMAIN lines |->
                     IF lines[i] # <<>> /\ i > 1 THEN indentStr \o lines[i] ELSE lines[i]], 1)

\* The "indent" function of the template: "" for "", else every line that
\* is not empty with strings.Repeat(" ", spaces) in front.
indent(spaces, text) ==
    LET lines == Split(text, 1, <<>>)
        indentStr == [k \in 1..spaces |-> " "]
    IN  IF text = <<>> THEN <<>>
        ELSE Join([i \in DOMAIN lines |->
                     IF lines[i] # <<>> THEN indentStr \o lines[i] ELSE lines[i]], 1)

IndentInit ==
    /\ arg \in [spaces : 0..MaxWidth, text : SeqUpTo({"a", " ", "\n"}, MaxText)]
    /\ out = NotApplied
    /\ IsoOff /\ CacheOff

\* One use of the helper by the template.
ApplyIndent ==
    /\ out.kind = "none"
    /\ out' = [kind |-> "ok", text |-> indent(arg.spaces, arg.text)]
    /\ arg' = arg
    /\ FnFrame

SpecIndent == IndentInit /\ [][ApplyIndent]_vars

\* The lines of the input and of the output.
LinesIn == Split(arg.text, 1, <<>>)
LinesOut == Split(out.text, 1, <<>>)

\* C33: the helper gives the empty text for the empty text; for any other
\* text it gives as many lines, in the same order, each empty line empty
\* and each other line, the first too, after exactly the given number of
\* spaces.
C33_Indent ==
    out.kind = "ok" =>
       IF arg.text = <<>> THEN out.text = <<>>
       ELSE /\ Len(LinesOut) = Len(LinesIn)
            /\ \A i \in DOMAIN LinesIn :
                 IF LinesIn[i] = <<>> THEN LinesOut[i] = <<>>
                 ELSE /\ Len(LinesOut[i]) = arg.spaces + Len(LinesIn[i])
                      /\ \A k \in 1..arg.spaces : LinesOut[i][k] = " "
                      /\ \A k \in DOMAIN LinesIn[i] : LinesOut[i][arg.spaces + k] = LinesIn[i][k]

\* A text of two lines with an empty line between them, indented by two.
C33_Witness ==
    /\ out.kind = "ok" /\ arg.spaces = 2 /\ arg.text = <<"a", "\n", "\n", "a">>
    /\ out.text = <<" ", " ", "a", "\n", "\n", " ", " ", "a">>

(***************************************************************************)
(*          pkg/catalognew: the cache file of a catalog image               *)
(***************************************************************************)

\* Longest catalog image reference, a sequence of the characters below.
MaxRef == 3
RefChars == {"r", "/", ":", "_"}

\* strings.ReplaceAll(s, old, new) for one-character old and new.
ReplaceAll(s, old, new) == [i \in DOMAIN s |-> IF s[i] = old THEN new ELSE s[i]]

\* NewCatalogManagerNew: the manager of a catalog image, its lock and cache
\* files named in the cache directory after the image reference with "/"
\* and ":" replaced by "_".
NewCatalogManagerNew(catalogImage, cacheDir) ==
    LET safeName == ReplaceAll(ReplaceAll(catalogImage, "/", "_"), ":", "_") IN
    [CatalogImage |-> catalogImage,
     CacheDir     |-> cacheDir,
     LockFile     |-> <<cacheDir, "/", ".">> \o safeName \o <<".lock">>,
     CacheFile    |-> <<cacheDir, "/">> \o safeName \o <<"_new.json">>]

CacheKeyInit ==
    /\ arg \in [cacheDir : {"cache"}, images : [1..2 -> SeqUpTo(RefChars, MaxRef)]]
    /\ out = NotApplied
    /\ IsoOff /\ CacheOff

\* A manager is constructed for the next of the two catalog images, over
\* the same cache directory.
NewManager ==
    /\ \/ /\ out.kind = "none"
          /\ out' = [kind |-> "ok",
                     mgrs |-> <<NewCatalogManagerNew(arg.images[1], arg.cacheDir)>>]
       \/ /\ out.kind = "ok" /\ Len(out.mgrs) = 1
          /\ out' = [out EXCEPT !.mgrs =
                       Append(@, NewCatalogManagerNew(arg.images[2], arg.cacheDir))]
    /\ arg' = arg
    /\ FnFrame

SpecCacheKey == CacheKeyInit /\ [][NewManager]_vars

\* C37: the managers of two different catalog images over one cache
\* directory have different cache files.
C37_DistinctCacheFiles ==
    (out.kind = "ok" /\ Len(out.mgrs) = 2
       /\ out.mgrs[1].CatalogImage # out.mgrs[2].CatalogImage)
      => out.mgrs[1].CacheFile # out.mgrs[2].CacheFile

(***************************************************************************)
(*          pkg/save: SaveImages                                            *)
(***************************************************************************)

\* The names of the entries an images directory may hold, cut into a head,
\* a sequence number and an extension.
SaveNames ==
    { <<"mirror_seq", "1", ".tar">>, <<"mirror_seq", "1", ".txt">>, <<"other", "1", ".tar">> }
SaveEntries == [name : SaveNames, isDir : BOOLEAN]

\* strings.HasPrefix and strings.HasSuffix on such a name.
HasPrefix(name, prefix) == name[1] = prefix
HasSuffix(name, suffix) == name[Len(name)] = suffix

\* The entries of the directory that are archives of the mirror engine.
Archives(f) ==
    { file \in f.entries :
        ~file.isDir /\ HasPrefix(file.name, "mirror_seq") /\ HasSuffix(file.name, ".tar") }

\* The check with the test of the entry being no directory left out.
checkExistingMirrorFilesAnyEntry(f) ==
    /\ f.images = "ok"
    /\ \E file \in f.entries :
         HasPrefix(file.name, "mirror_seq") /\ HasSuffix(file.name, ".tar")

\* checkExistingMirrorFiles: false when os.ReadDir fails (the directory
\* cannot be listed), else whether an entry that is no directory has the
\* name of an archive.
checkExistingMirrorFiles(f) ==
    /\ f.images = "ok"
    /\ \E file \in f.entries :
         ~file.isDir /\ HasPrefix(file.name, "mirror_seq") /\ HasSuffix(file.name, ".tar")

SaveInit ==
    /\ fs \in { f \in [images      : {"absent", "ok", "unreadable"},
                       entries     : SUBSET SaveEntries,
                       config      : {"absent", "old"},
                       resolvedBy  : {0},    \* call that last resolved the operators
                       workingDir  : BOOLEAN,
                       engineRuns  : {0},
                       engineInput : {"none"}] :
                  f.images = "absent" => f.entries = {} }
    /\ opts \in [IncludeOperators : BOOLEAN]
    /\ pc = "idle" /\ ret = "none" /\ run = 0
    /\ CacheOff /\ FnOff

\* SaveImages, up to the gate: the images directory is made if need be, and
\* with an archive found in it the call returns success at once.
SaveImages ==
    /\ pc = "idle" /\ run < MaxRuns
    /\ run' = run + 1
    /\ \E made \in BOOLEAN :
         IF fs.images = "absent" /\ ~made
           THEN /\ fs' = fs
                /\ pc' = "idle" /\ ret' = "err:mkdir"
           ELSE LET f1 == [fs EXCEPT !.images = IF @ = "absent" THEN "ok" ELSE @] IN
                /\ fs' = f1
                /\ IF checkExistingMirrorFiles(f1)
                     THEN pc' = "idle" /\ ret' = "ok"
                     ELSE pc' = "config" /\ ret' = "none"
    /\ opts' = opts
    /\ IsoFrame

\* generateImageSetConfig: the operators are resolved against the catalog
\* if they are included; os.Create may fail, leaving the file as it was,
\* and the template may fail, leaving it cut short.
generateImageSetConfig ==
    /\ pc = "config"
    /\ \E outcome \in {"ok", "create", "execute"} :
         LET f1 == [fs EXCEPT !.resolvedBy = IF opts.IncludeOperators THEN run ELSE @] IN
         CASE outcome = "ok" ->
                /\ fs' = [f1 EXCEPT !.config = By(run)]
                /\ pc' = "workdir" /\ ret' = ret
           [] outcome = "create" ->
                /\ fs' = f1
                /\ pc' = "idle" /\ ret' = "err:config"
           [] outcome = "execute" ->
                /\ fs' = [f1 EXCEPT !.config = "partial"]
                /\ pc' = "idle" /\ ret' = "err:config"
    /\ UNCHANGED <<opts, run>>
    /\ IsoFrame

\* SaveImages, os.MkdirAll of the working directory.
prepareWorkingDir ==
    /\ pc = "workdir"
    /\ \E made \in BOOLEAN :
         IF ~fs.workingDir /\ ~made
           THEN /\ fs' = fs
                /\ pc' = "idle" /\ ret' = "err:workdir"
           ELSE /\ fs' = [fs EXCEPT !.workingDir = TRUE]
                /\ pc' = "mirror" /\ ret' = ret
    /\ UNCHANGED <<opts, run>>
    /\ IsoFrame

\* runMirrorToDisk: the mirror engine runs on the configuration file and
\* writes, or fails to write, an archive into the images directory.
runMirrorToDisk ==
    /\ pc = "mirror"
    /\ \E ok \in BOOLEAN, written \in BOOLEAN :
         /\ fs' = [fs EXCEPT !.engineRuns = @ + 1,
                             !.engineInput = fs.config,
                             !.entries = IF written /\ fs.images = "ok"
                                           THEN @ \cup {[name |-> <<"mirror_seq", "1", ".tar">>,
                                                         isDir |-> FALSE]}
                                           ELSE @]
         /\ pc' = "idle"
         /\ ret' = IF ok THEN "ok" ELSE "err:mirror"
    /\ UNCHANGED <<opts, run>>
    /\ IsoFrame

SaveNext ==
    \/ SaveImages
    \/ generateImageSetConfig
    \/ prepareWorkingDir
    \/ runMirrorToDisk

SpecSave == SaveInit /\ [][SaveNext]_vars

\* The rest of C40, the same as stated and as amended: a call that is not
\* stopped at the gate does not return success before the engine ran; the
\* engine runs only on the configuration this call generated in full; and
\* a failed generation ends the call, the engine not run.
C40_ConfigBeforeEngine ==
    /\ (pc = "idle" /\ pc' = "idle" /\ run' = run + 1 /\ Archives(fs) = {}) => ret' # "ok"
    /\ fs'.engineRuns = fs.engineRuns \/ fs.config = By(run)
    /\ (pc = "config" /\ pc' = "idle") => (ret' = "err:config" /\ fs'.engineRuns = fs.engineRuns)
    /\ fs'.engineRuns # fs.engineRuns => pc = "mirror"

\* C40 as stated: a call that finds an archive in the images directory
\* returns success at once, nothing generated, resolved or run.
C40_AsStated ==
    [][ /\ (pc = "idle" /\ run' = run + 1 /\ Archives(fs) # {})
             => (pc' = "idle" /\ ret' = "ok" /\ fs' = fs)
        /\ C40_ConfigBeforeEngine ]_vars

\* C40: a call that can list the images directory and finds in it a regular
\* file named mirror_seq*.tar returns success at once, with no
\* configuration generated, no operator resolved and no engine run;
\* otherwise the configuration is generated before the engine is run, and a
\* failed generation keeps the engine from running.
C40_SaveGate ==
    [][ /\ (pc = "idle" /\ run' = run + 1 /\ fs.images = "ok" /\ Archives(fs) # {})
             => (pc' = "idle" /\ ret' = "ok" /\ fs' = fs)
        /\ C40_ConfigBeforeEngine ]_vars

\* The first call ran the engine, which wrote an archive, and the second
\* returned at the gate: the configuration and the resolution are still
\* those of the first.
C40_Witness ==
    /\ run = 2 /\ pc = "idle" /\ ret = "ok"
    /\ fs.engineRuns = 1 /\ fs.config = By(1) /\ fs.engineInput = By(1)
    /\ opts.IncludeOperators /\ fs.resolvedBy = 1
    /\ Archives(fs) # {}

=============================================================================
